---- MODULE Spec2Model ----
(***************************************************************************)
(* Verification model of the client-side data pipeline of frontend_synergy *)
(* (numeric coercion, exogenous-driver alignment, the CSV codec and the    *)
(* forecast page that ties them together).                                 *)
(*                                                                         *)
(* Conventions                                                             *)
(*  - a JavaScript string is a sequence of one-character strings;          *)
(*  - a JavaScript value is a record tagged by t: "num" (a finite decimal  *)
(*    n * 10^-d, d minimal), "nan", "inf", "ninf", "null", "undef", "str"; *)
(*  - a JavaScript object is a sequence of <<key, value>> entries in       *)
(*    insertion order, keys unique;                                        *)
(*  - a JavaScript array is a sequence, read at 0-based indices with At.   *)
(***************************************************************************)
EXTENDS Integers, Sequences, FiniteSets, TLC

VARIABLES
  \* ---- ExogAligner, called as pure functions ----
  exMap,       \* the ExogMap argument
  exColumns,   \* the declared columns
  exHorizon,   \* the horizon argument
  exCall       \* the last call made on them and what it returned

VARIABLES
  \* ---- CsvCodec, called as pure functions ----
  csvRecords,    \* the records given to toCSV
  csvDelimiter,  \* the delimiter argument
  csvText,       \* CSV text: written by toCSV, or supplied by the user
  csvDoc,        \* what parseCSV returned
  csvStage       \* "records", "text", "parsed" or "pasted"

VARIABLES
  \* ---- the forecast page (ForecastPage, ForecastForm, ManualExogGrid) ----
  exogColumns,  \* exogInfo?.expected_exog_used_by_forecast ?? []
  pageHorizon,  \* ForecastPage state `horizon`
  manualExog,   \* ForecastPage state, the map sent in manual mode
  grid,         \* ManualExogGrid state
  formValues,   \* the values of ForecastForm
  isPending,    \* usePredict().isPending: the body in flight, or none
  posted,       \* every body posted to /api/predict so far
  result,       \* ForecastPage state
  error,        \* ForecastPage state
  edits         \* number of grid edits made (bounded)

VARIABLES
  \* ---- ForecastNormalizer, called as a pure function ----
  normRaw,   \* the raw forecasts array of a response
  normOut,   \* what normalizeForecastPoints returned
  normStage  \* "raw" or "normalized"

VARIABLES
  \* ---- the other pure functions of lib/utils, hooks and the charts ----
  fnArgs,    \* the arguments of the call
  fnCall     \* [op |-> "none"], or the function called and what it returned

VARIABLES
  \* ---- the chat page and its useChatForecast mutation ----
  chatPrompt,    \* ChatPage state: the text of the prompt box
  chatInFlight,  \* the POST /api/chat/forecast calls not yet answered
  chatIssued,    \* number of network calls issued so far
  chatIsPending, \* isPending of the mutation: the latest call is unanswered
  chatResult,    \* ChatPage state: 0 (null), or the number of the call answered
  chatError,     \* ChatPage state: 0 (null), or the number of the call that failed
  chatDone       \* the calls answered so far, each with its outcome

VARIABLES
  \* ---- ManualExogGrid: what the page model leaves out ----
  fillCol,    \* state of the "fill column" select
  importing,  \* onImportCSV awaiting file.text(): what its closure holds, or none
  emitted     \* the last map handed to onChange, with the props at that moment

VARIABLES
  \* ---- the metrics page ----
  mForm,      \* MetricsPage state: evalStart, evalEnd, alpha
  mResult,    \* MetricsPage state: 0 (null), or the number of the request answered
  mError,     \* MetricsPage state: 0 (null), or the number of the request that failed
  mIsPending, \* MetricsPage state
  mInFlight,  \* the GET /api/metrics requests not yet answered
  mIssued,    \* number of requests issued so far
  mClean      \* Reset was pressed and no evaluation was run since

normVars == <<normRaw, normOut, normStage>>
fnVars == <<fnArgs, fnCall>>
chatVars == <<chatPrompt, chatInFlight, chatIssued, chatIsPending, chatResult, chatError,
              chatDone>>
pageVars == <<exogColumns, pageHorizon, manualExog, grid, formValues, isPending,
              posted, result, error, edits>>
exogVars == <<exMap, exColumns, exHorizon, exCall>>
csvVars == <<csvRecords, csvDelimiter, csvText, csvDoc, csvStage>>
gridVars == <<fillCol, importing, emitted>>
metricsVars == <<mForm, mResult, mError, mIsPending, mInFlight, mIssued, mClean>>
vars == <<exogVars, csvVars, pageVars, normVars, fnVars, chatVars, gridVars, metricsVars>>

----------------------------------------------------------------------------
(* Characters *)
QUOTE == "\""
COMMA == ","
SEMI == ";"
LF == "\n"
CR == "\r"
SPACE == " "

Digits == {"0", "1", "2", "3", "4", "5", "6", "7", "8", "9"}

DigitVal(c) ==
  CASE c = "0" -> 0 [] c = "1" -> 1 [] c = "2" -> 2 [] c = "3" -> 3
    [] c = "4" -> 4 [] c = "5" -> 5 [] c = "6" -> 6 [] c = "7" -> 7
    [] c = "8" -> 8 [] c = "9" -> 9

\* white space that Number() trims from both ends of a string
WhiteSpace == {SPACE, LF, CR, "\t"}

----------------------------------------------------------------------------
(* JavaScript values *)
Null == [t |-> "null"]
Undef == [t |-> "undef"]
NaN == [t |-> "nan"]
PosInf == [t |-> "inf"]
NegInf == [t |-> "ninf"]

RECURSIVE Normalize(_, _)
Normalize(n, d) ==
  IF d > 0 /\ n % 10 = 0 THEN Normalize(n \div 10, d - 1)
  ELSE [t |-> "num", n |-> n, d |-> d]

Dec(n, d) == Normalize(n, d)
Num(n) == [t |-> "num", n |-> n, d |-> 0]
Str(s) == [t |-> "str", s |-> s]

IsNumberType(v) == v.t \in {"num", "nan", "inf", "ninf"}
\* Number.isFinite
IsFinite(v) == v.t = "num"

\* arr[i] of a JavaScript array, 0-based; out of range reads undefined
At(arr, i) == IF i >= 0 /\ i < Len(arr) THEN arr[i + 1] ELSE Undef

\* v ?? w
Coalesce(v, w) == IF v = Null \/ v = Undef THEN w ELSE v

----------------------------------------------------------------------------
(* JavaScript objects: sequences of <<key, value>> in insertion order *)
Keys(obj) == [i \in 1..Len(obj) |-> obj[i][1]]
KeySet(obj) == {obj[i][1] : i \in 1..Len(obj)}
HasKey(obj, k) == k \in KeySet(obj)
\* obj[k]; undefined when the key is missing
Get(obj, k) ==
  IF HasKey(obj, k)
  THEN obj[CHOOSE i \in 1..Len(obj) : obj[i][1] = k][2]
  ELSE Undef
\* obj?.[k] ?? [] : the array under k, the empty array when there is none
GetOrEmpty(obj, k) ==
  IF HasKey(obj, k)
  THEN obj[CHOOSE i \in 1..Len(obj) : obj[i][1] = k][2]
  ELSE <<>>
\* obj[k] = v : in place when the key exists, appended otherwise
Put(obj, k, v) ==
  IF HasKey(obj, k)
  THEN [i \in 1..Len(obj) |-> IF obj[i][1] = k THEN <<k, v>> ELSE obj[i]]
  ELSE Append(obj, <<k, v>>)

----------------------------------------------------------------------------
(* Number(string): StringToNumber of the language, on decimal literals.    *)
(* Exponents and 0x/0o/0b literals are outside the alphabets used here.    *)
RECURSIVE TrimLeft(_)
TrimLeft(s) ==
  IF Len(s) > 0 /\ s[1] \in WhiteSpace THEN TrimLeft(Tail(s)) ELSE s

RECURSIVE TrimRight(_)
TrimRight(s) ==
  IF Len(s) > 0 /\ s[Len(s)] \in WhiteSpace
  THEN TrimRight(SubSeq(s, 1, Len(s) - 1)) ELSE s

Trim(s) == TrimRight(TrimLeft(s))

RECURSIVE DigitsValue(_)
DigitsValue(s) ==
  IF Len(s) = 0 THEN 0
  ELSE 10 * DigitsValue(SubSeq(s, 1, Len(s) - 1)) + DigitVal(s[Len(s)])

InfinityLit == <<"I", "n", "f", "i", "n", "i", "t", "y">>

\* unsigned decimal literal: digits, digits., digits.digits, .digits
UnsignedToNumber(s) ==
  LET dots == {i \in 1..Len(s) : s[i] = "."}
      ok == /\ \A i \in 1..Len(s) : s[i] \in Digits \cup {"."}
            /\ Cardinality(dots) <= 1
            /\ \E i \in 1..Len(s) : s[i] \in Digits
  IN IF s = InfinityLit THEN PosInf
     ELSE IF ~ok THEN NaN
     ELSE IF dots = {} THEN Dec(DigitsValue(s), 0)
     ELSE LET p == CHOOSE i \in dots : TRUE
              ip == SubSeq(s, 1, p - 1)
              fp == SubSeq(s, p + 1, Len(s))
          IN Dec(DigitsValue(ip \o fp), Len(fp))

Negate(v) ==
  CASE v.t = "num" -> [t |-> "num", n |-> 0 - v.n, d |-> v.d]
    [] v.t = "inf" -> NegInf
    [] v.t = "ninf" -> PosInf
    [] OTHER -> v

StringToNumber(s) ==
  LET u == Trim(s)
  IN IF Len(u) = 0 THEN Num(0)
     ELSE IF u[1] = "-" THEN Negate(UnsignedToNumber(Tail(u)))
     ELSE IF u[1] = "+" THEN UnsignedToNumber(Tail(u))
     ELSE UnsignedToNumber(u)

\* Number(v) for the values of the model
ToNumberJS(v) ==
  CASE IsNumberType(v) -> v
    [] v.t = "str" -> StringToNumber(v.s)
    [] v.t = "null" -> Num(0)
    [] OTHER -> NaN

\* String(v).replace(/[, ]/g, "")
StripSeparators(s) == SelectSeq(s, LAMBDA c : c \notin {COMMA, SPACE})

----------------------------------------------------------------------------
(* lib/utils.ts : NumericCoercer *)
\* a coercion that forgets Number.isFinite
toNumber_noFiniteCheck(v) ==
  IF v = Null \/ v = Undef THEN Undef
  ELSE IF IsNumberType(v) THEN v ELSE ToNumberJS(v)

toNumber(v) ==
  IF v = Null \/ v = Undef THEN Undef
  ELSE LET n == IF IsNumberType(v) THEN v ELSE ToNumberJS(v)
       IN IF IsFinite(n) THEN n ELSE Undef

\* a variant that hands back what toNumber gave, absent included
toNumberStrict_noFallback(v, fallback) == toNumber(v)

toNumberStrict(v, fallback) ==
  LET n == toNumber(v)
  IN IF IsNumberType(n) THEN n ELSE fallback

\* the argument of normalizeForecastPoints: an array, or null / undefined
Arr(a) == [t |-> "arr", a |-> a]
\* raw ?? []
OrEmptyArray(raw) == IF raw = Null \/ raw = Undef THEN <<>> ELSE raw.a

\* the callback of the map: a field the point lacks reads undefined
normalizePoint(p) ==
  [ds |-> p.ds,
   yhat |-> toNumberStrict(p.yhat, Num(0)),
   yhat_lower |-> toNumber(p.yhat_lower),
   yhat_upper |-> toNumber(p.yhat_upper)]

\* a variant that drops the points whose estimate is no finite number
normalizeForecastPoints_filtered(raw) ==
  LET kept == SelectSeq(OrEmptyArray(raw), LAMBDA p : IsFinite(toNumber(p.yhat)))
  IN [i \in 1..Len(kept) |-> normalizePoint(kept[i])]

\* (raw ?? []).map(p => ({ds, yhat, yhat_lower, yhat_upper}))
normalizeForecastPoints(raw) ==
  LET arr == OrEmptyArray(raw)
  IN [i \in 1..Len(arr) |-> normalizePoint(arr[i])]

(* ManualExogGrid : toNumberOrZero. String(v) of a number is the number's  *)
(* own literal, so the string branch is only taken for strings.            *)
toNumberOrZero(v) ==
  IF v = Null \/ v = Undef \/ v = Str(<<>>) THEN Num(0)
  ELSE LET n == IF IsNumberType(v) THEN v
                ELSE StringToNumber(StripSeparators(v.s))
       IN IF IsFinite(n) THEN n ELSE Num(0)

----------------------------------------------------------------------------
(* ExogAligner *)

RECURSIVE initGridLoop(_, _, _, _)
initGridLoop(columns, horizon, from, next) ==
  IF Len(columns) = 0 THEN next
  ELSE LET col == Head(columns)
           src == GetOrEmpty(from, col)
           \* Array.from({length: horizon}, (_, i) => toNumberOrZero(src[i]))
           arr == [i \in 1..horizon |-> toNumberOrZero(At(src, i - 1))]
       IN initGridLoop(Tail(columns), horizon, from, Put(next, col, arr))

\* a resize that pads but forgets to truncate
initGrid_noTruncate(columns, horizon, from) ==
  LET grown == IF \E i \in 1..Len(columns) : Len(GetOrEmpty(from, columns[i])) > horizon
               THEN horizon + 1 ELSE horizon
  IN initGridLoop(columns, grown, from, <<>>)

\* `from` undefined is passed as the empty object: from?.[col] ?? [] is [] in both
initGrid(columns, horizon, from) == initGridLoop(columns, horizon, from, <<>>)

\* the horizon effect of the forecast page: setManualExog(prev => ...)
RECURSIVE horizonEffectLoop(_, _, _, _)
horizonEffectLoop(columns, horizon, prev, next) ==
  IF Len(columns) = 0 THEN next
  ELSE LET c == Head(columns)
           src == GetOrEmpty(prev, c)
           \* Array.from({length: horizon}, (_, i) => Number(src[i] ?? 0))
           arr == [i \in 1..horizon |-> ToNumberJS(Coalesce(At(src, i - 1), Num(0)))]
       IN horizonEffectLoop(Tail(columns), horizon, prev, Put(next, c, arr))

horizonEffect(columns, horizon, prev) ==
  horizonEffectLoop(columns, horizon, prev, <<>>)

\* a matrix built in the map's own key order instead of the declared order
exogMapToMatrix_mapOrder(map, columns, horizon) ==
  LET cell(r, c) == toNumberOrZero(At(IF c < Len(map) THEN map[c + 1][2] ELSE <<>>, r))
  IN [columns |-> columns,
      rows |-> [r \in 1..horizon |-> [c \in 1..Len(columns) |-> cell(r - 1, c - 1)]]]

exogMapToMatrix(map, columns, horizon) ==
  LET cell(r, c) == toNumberOrZero(At(GetOrEmpty(map, columns[c + 1]), r))
  IN [columns |-> columns,
      rows |-> [r \in 1..horizon |-> [c \in 1..Len(columns) |-> cell(r - 1, c - 1)]]]

----------------------------------------------------------------------------
(* CsvCodec: parseCSV of the grid, toCSV of lib/utils.ts *)

\* cur.replace(/""/g, '"') : every non-overlapping pair, left to right
RECURSIVE UnescapeDoubled(_)
UnescapeDoubled(s) ==
  IF Len(s) < 2 THEN s
  ELSE IF s[1] = QUOTE /\ s[2] = QUOTE
       THEN <<QUOTE>> \o UnescapeDoubled(SubSeq(s, 3, Len(s)))
       ELSE <<s[1]>> \o UnescapeDoubled(Tail(s))

\* the scanner's state: rows, row, cur, inQuotes
ScanStart == [rows |-> <<>>, row |-> <<>>, cur |-> <<>>, inQuotes |-> FALSE]

pushCell(st) ==
  LET unq == IF st.inQuotes THEN UnescapeDoubled(st.cur) ELSE st.cur
  IN [st EXCEPT !.row = Append(st.row, unq), !.cur = <<>>, !.inQuotes = FALSE]

pushRow(st) == [st EXCEPT !.rows = Append(st.rows, st.row), !.row = <<>>]

\* the for loop of parseCSV from index i (1-based here) to the end of text
RECURSIVE scanCSV(_, _, _, _)
scanCSV(text, delimiter, i, st) ==
  IF i > Len(text) THEN st
  ELSE LET ch == text[i]
           next == IF i < Len(text) THEN text[i + 1] ELSE ""
       IN IF ch = QUOTE
          THEN IF st.inQuotes /\ next = QUOTE
               THEN scanCSV(text, delimiter, i + 2,
                            [st EXCEPT !.cur = Append(st.cur, QUOTE)])
               ELSE scanCSV(text, delimiter, i + 1,
                            [st EXCEPT !.inQuotes = ~st.inQuotes])
          ELSE IF ch = delimiter /\ ~st.inQuotes
          THEN scanCSV(text, delimiter, i + 1, pushCell(st))
          ELSE IF ch \in {LF, CR} /\ ~st.inQuotes
          THEN scanCSV(text, delimiter,
                       IF ch = CR /\ next = LF THEN i + 2 ELSE i + 1,
                       pushRow(pushCell(st)))
          ELSE scanCSV(text, delimiter, i + 1, [st EXCEPT !.cur = Append(st.cur, ch)])

\* while (rows.length && rows[rows.length - 1].every((c) => c === "")) rows.pop()
\* an `if` where the code has a `while`: at most one row is popped
dropEmptyTrailingRows_once(rows) ==
  IF Len(rows) > 0 /\ \A c \in 1..Len(rows[Len(rows)]) : rows[Len(rows)][c] = <<>>
  THEN SubSeq(rows, 1, Len(rows) - 1)
  ELSE rows

RECURSIVE dropEmptyTrailingRows(_)
dropEmptyTrailingRows(rows) ==
  IF Len(rows) > 0 /\ \A c \in 1..Len(rows[Len(rows)]) : rows[Len(rows)][c] = <<>>
  THEN dropEmptyTrailingRows(SubSeq(rows, 1, Len(rows) - 1))
  ELSE rows

\* the rows after the loop, the last cell and the last row are pushed
scannedRows(text, delimiter) ==
  LET last == pushCell(scanCSV(text, delimiter, 1, ScanStart))
  IN IF Len(last.row) > 0 THEN pushRow(last).rows ELSE last.rows

parseCSV(text, delimiter) ==
  LET rows == dropEmptyTrailingRows(scannedRows(text, delimiter))
  IN IF Len(rows) = 0 THEN [headers |-> <<>>, rows |-> <<>>]
     ELSE [headers |-> Head(rows), rows |-> Tail(rows)]

\* the decimal digits of a natural number
RECURSIVE NatToString(_)
NatToString(n) ==
  LET d == <<"0", "1", "2", "3", "4", "5", "6", "7", "8", "9">>
  IN IF n < 10 THEN <<d[n + 1]>> ELSE NatToString(n \div 10) \o <<d[(n % 10) + 1]>>

RECURSIVE Pow10(_)
Pow10(d) == IF d = 0 THEN 1 ELSE 10 * Pow10(d - 1)

RECURSIVE ZeroPad(_, _)
ZeroPad(s, len) == IF Len(s) >= len THEN s ELSE ZeroPad(<<"0">> \o s, len)

\* String(val) for the values of the model (plain decimal notation)
ToStringJS(v) ==
  CASE v.t = "str" -> v.s
    [] v.t = "num" ->
         LET a == IF v.n < 0 THEN 0 - v.n ELSE v.n
             body == IF v.d = 0 THEN NatToString(a)
                     ELSE NatToString(a \div Pow10(v.d)) \o <<".">>
                          \o ZeroPad(NatToString(a % Pow10(v.d)), v.d)
         IN IF v.n < 0 THEN <<"-">> \o body ELSE body
    [] v.t = "nan" -> <<"N", "a", "N">>
    [] v.t = "inf" -> InfinityLit
    [] v.t = "ninf" -> <<"-">> \o InfinityLit
    [] v.t = "null" -> <<"n", "u", "l", "l">>
    [] OTHER -> <<"u", "n", "d", "e", "f", "i", "n", "e", "d">>

\* s.replace(/"/g, '""')
RECURSIVE DoubleQuotes(_)
DoubleQuotes(s) ==
  IF Len(s) = 0 THEN <<>>
  ELSE (IF s[1] = QUOTE THEN <<QUOTE, QUOTE>> ELSE <<s[1]>>) \o DoubleQuotes(Tail(s))

\* the esc closure of toCSV; the test /[",\n]/ names the comma, not the delimiter
esc(val) ==
  IF val = Null \/ val = Undef THEN <<>>
  ELSE LET s == ToStringJS(val)
       IN IF \E i \in 1..Len(s) : s[i] \in {QUOTE, COMMA, LF}
          THEN <<QUOTE>> \o DoubleQuotes(s) \o <<QUOTE>>
          ELSE s

\* Array.prototype.join
RECURSIVE Join(_, _)
Join(parts, sep) ==
  IF Len(parts) = 0 THEN <<>>
  ELSE IF Len(parts) = 1 THEN parts[1]
  ELSE parts[1] \o sep \o Join(Tail(parts), sep)

\* headerSet: every key of every row, added in order; a Set keeps the first add
RECURSIVE addKeys(_, _)
addKeys(headers, keys) ==
  IF Len(keys) = 0 THEN headers
  ELSE addKeys(IF \E i \in 1..Len(headers) : headers[i] = Head(keys)
               THEN headers ELSE Append(headers, Head(keys)),
               Tail(keys))

RECURSIVE collectHeaders(_, _)
collectHeaders(rows, headers) ==
  IF Len(rows) = 0 THEN headers
  ELSE collectHeaders(Tail(rows), addKeys(headers, Keys(Head(rows))))

toCSV(rows, delimiter) ==
  IF Len(rows) = 0 THEN <<>>
  ELSE LET headers == collectHeaders(rows, <<>>)
           line(r) == Join([h \in 1..Len(headers) |-> esc(Get(r, headers[h]))],
                           <<delimiter>>)
           lines == <<Join(headers, <<delimiter>>)>>
                    \o [k \in 1..Len(rows) |-> line(rows[k])]
       IN Join(lines, <<LF>>)

----------------------------------------------------------------------------
(* lib/constants.ts, lib/hooks.ts *)
DEFAULTS ==
  [horizon |-> 14, frequency |-> "D", alpha |-> Dec(5, 2),
   exogStrategy |-> "smart", clipNonNegative |-> TRUE, floor |-> Num(0)]

\* input.f ?? d, an absent field standing for a field that is undefined or null
FieldOr(rec, f, d) == IF f \in DOMAIN rec THEN rec[f] ELSE d

\* typeof input.alpha === "number" ? input.alpha : DEFAULTS.alpha
alphaOrDefault(input) ==
  LET a == FieldOr(input, "alpha", Undef)
  IN IF IsNumberType(a) THEN a ELSE DEFAULTS.alpha

hasExog(input) == "exog" \in DOMAIN input /\ input.exog \notin {Null, Undef}

\* a variant that keeps the caller's use_auto_exog
withPredictDefaults_keepsFlag(input) ==
  LET flags == FieldOr(input, "flags", [none |-> TRUE])
  IN IF ~hasExog(input)
     THEN [horizon |-> FieldOr(input, "horizon", DEFAULTS.horizon),
           frequency |-> FieldOr(input, "frequency", DEFAULTS.frequency),
           alpha |-> alphaOrDefault(input),
           flags |-> [use_auto_exog |-> FieldOr(flags, "use_auto_exog", TRUE),
                      exog_strategy |-> FieldOr(flags, "exog_strategy", DEFAULTS.exogStrategy),
                      clip_non_negative |->
                        FieldOr(flags, "clip_non_negative", DEFAULTS.clipNonNegative),
                      floor |-> FieldOr(flags, "floor", DEFAULTS.floor)]]
     ELSE input

\* a variant that fills in alpha on a body that carries exogenous data
withPredictDefaults_fillsAlpha(input) ==
  LET flags == FieldOr(input, "flags", [none |-> TRUE])
  IN IF ~hasExog(input)
     THEN [horizon |-> FieldOr(input, "horizon", DEFAULTS.horizon),
           frequency |-> FieldOr(input, "frequency", DEFAULTS.frequency),
           alpha |-> alphaOrDefault(input),
           flags |-> [use_auto_exog |-> TRUE,
                      exog_strategy |-> FieldOr(flags, "exog_strategy", DEFAULTS.exogStrategy),
                      clip_non_negative |->
                        FieldOr(flags, "clip_non_negative", DEFAULTS.clipNonNegative),
                      floor |-> FieldOr(flags, "floor", DEFAULTS.floor)]]
     ELSE [f \in DOMAIN input \cup {"alpha"} |->
             IF f = "alpha" THEN alphaOrDefault(input) ELSE input[f]]

withPredictDefaults(input) ==
  LET flags == FieldOr(input, "flags", [none |-> TRUE])
  IN IF ~hasExog(input)
     THEN [horizon |-> FieldOr(input, "horizon", DEFAULTS.horizon),
           frequency |-> FieldOr(input, "frequency", DEFAULTS.frequency),
           alpha |-> alphaOrDefault(input),
           flags |-> [use_auto_exog |-> TRUE,
                      exog_strategy |-> FieldOr(flags, "exog_strategy", DEFAULTS.exogStrategy),
                      clip_non_negative |->
                        FieldOr(flags, "clip_non_negative", DEFAULTS.clipNonNegative),
                      floor |-> FieldOr(flags, "floor", DEFAULTS.floor)]]
     ELSE input

----------------------------------------------------------------------------
(* The forecast page *)

\* the exogenous payload of a manual-map body
ExogPayload(map) == [t |-> "map", map |-> map]

\* ForecastForm: clamp of setHorizon
clamp(n) == IF n > 365 THEN 365 ELSE IF n < 1 THEN 1 ELSE n

\* ForecastForm.onSubmitInternal: the body handed to onSubmit
formBody(values) ==
  [horizon |-> values.horizon, frequency |-> values.frequency, alpha |-> values.alpha,
   flags |-> [use_auto_exog |-> values.use_auto_exog,
              exog_strategy |-> values.exog_strategy]]

\* ManualExogGrid.setCell: { ...grid, [colName]: [...(grid[colName] ?? [])] },
\* then next[colName][rowIdx] = toNumberOrZero(raw); rowIdx is a rendered row
setCell(g, columns, colIdx, rowIdx, raw) ==
  LET colName == columns[colIdx + 1]
      old == GetOrEmpty(g, colName)
      arr == [i \in 1..(IF rowIdx + 1 > Len(old) THEN rowIdx + 1 ELSE Len(old)) |->
                IF i = rowIdx + 1 THEN toNumberOrZero(raw)
                ELSE IF i <= Len(old) THEN old[i] ELSE Undef]
  IN Put(g, colName, arr)

----------------------------------------------------------------------------
(* Bounds and input sets of the ExogAligner calls *)
MaxArrayLen == 3
MaxHorizon == 3
MaxMapKeys == 2
MaxColumns == 2

\* column names, strings like every other string of the model
ADR == <<"A", "D", "R">>
RoomNights == <<"R", "o", "o", "m", "N", "i", "g", "h", "t", "s">>
Occ == <<"O", "c", "c">>
ExogNames == {ADR, RoomNights, Occ}

SeqsUpTo(S, n) == UNION {[1..k -> S] : k \in 0..n}
InjectiveSeqs(S, n) ==
  {s \in SeqsUpTo(S, n) : \A i, j \in 1..Len(s) : i # j => s[i] # s[j]}

\* the arrays of a valid ExogMap: finite numbers, told apart by column and row
ExogSeries(name, len) ==
  LET base == CASE name = ADR -> 0 [] name = RoomNights -> 10 [] OTHER -> 20
  IN [i \in 1..len |-> Num(base + i)]

ExogMaps(n) ==
  UNION {{[i \in 1..Len(ks) |-> <<ks[i], ExogSeries(ks[i], f[i])>>] :
            f \in [1..Len(ks) -> 0..MaxArrayLen]}
         : ks \in InjectiveSeqs(ExogNames, n)}

ExogColumnLists(n) == SeqsUpTo(ExogNames, n)

NoCall == [op |-> "none"]

\* the other components at rest
NormIdle == normRaw = Arr(<<>>) /\ normOut = <<>> /\ normStage = "idle"
PageIdle ==
  /\ exogColumns = <<>> /\ pageHorizon = DEFAULTS.horizon /\ manualExog = <<>>
  /\ grid = <<>> /\ formValues = [none |-> TRUE] /\ isPending = [none |-> TRUE]
  /\ posted = {} /\ result = "none" /\ error = "none" /\ edits = 0
ExogIdle == exMap = <<>> /\ exColumns = <<>> /\ exHorizon = 0 /\ exCall = NoCall
FnIdle == fnArgs = <<>> /\ fnCall = NoCall
ChatIdle ==
  /\ chatPrompt = <<>> /\ chatInFlight = {} /\ chatIssued = 0
  /\ chatIsPending = FALSE /\ chatResult = 0 /\ chatError = 0 /\ chatDone = {}
NoEmit == [none |-> TRUE]
NotImporting == [none |-> TRUE]
\* fillCol is useState(columns[0] ?? ""), the grid mounting before the columns load
GridIdle == fillCol = <<>> /\ importing = NotImporting /\ emitted = NoEmit
MetricsIdle ==
  /\ mForm = [evalStart |-> <<>>, evalEnd |-> <<>>, alpha |-> Dec(5, 2)]
  /\ mResult = 0 /\ mError = 0 /\ mIsPending = FALSE
  /\ mInFlight = {} /\ mIssued = 0 /\ mClean = FALSE
CsvIdle ==
  /\ csvRecords = <<>> /\ csvDelimiter = COMMA /\ csvText = <<>>
  /\ csvDoc = [headers |-> <<>>, rows |-> <<>>] /\ csvStage = "idle"

ExogInit ==
  /\ exMap \in ExogMaps(MaxMapKeys)
  /\ exColumns \in ExogColumnLists(MaxColumns)
  /\ exHorizon \in 0..MaxHorizon
  /\ exCall = NoCall

CallExogMapToMatrix ==
  /\ exCall = NoCall
  /\ exCall' = [op |-> "exogMapToMatrix",
                out |-> exogMapToMatrix(exMap, exColumns, exHorizon)]
  /\ UNCHANGED <<exMap, exColumns, exHorizon, csvVars, pageVars, normVars, fnVars, chatVars,
                 gridVars, metricsVars>>

CallInitGrid ==
  /\ exCall = NoCall
  /\ exCall' = [op |-> "initGrid", out |-> initGrid(exColumns, exHorizon, exMap)]
  /\ UNCHANGED <<exMap, exColumns, exHorizon, csvVars, pageVars, normVars, fnVars, chatVars,
                 gridVars, metricsVars>>

CallHorizonEffect ==
  /\ exCall = NoCall
  /\ exCall' = [op |-> "horizonEffect",
                out |-> horizonEffect(exColumns, exHorizon, exMap)]
  /\ UNCHANGED <<exMap, exColumns, exHorizon, csvVars, pageVars, normVars, fnVars, chatVars,
                 gridVars, metricsVars>>

ExogNext == CallExogMapToMatrix \/ CallInitGrid \/ CallHorizonEffect

InitExog == ExogInit /\ CsvIdle /\ PageIdle /\ NormIdle /\ FnIdle /\ ChatIdle /\ GridIdle /\ MetricsIdle
SpecExog == InitExog /\ [][ExogNext]_vars

----------------------------------------------------------------------------
(* Claims about the ExogAligner *)

\* the objects holding the same entries in another key order
KeyOrders(obj) ==
  {[i \in 1..Len(obj) |-> obj[f[i]]] :
     f \in {g \in [1..Len(obj) -> 1..Len(obj)] :
              \A i, j \in 1..Len(obj) : i # j => g[i] # g[j]}}

\* what the claims expect at (column, 0-based row): the map's entry, or 0
ExpectedCell(map, col, r) ==
  IF HasKey(map, col) /\ r < Len(Get(map, col)) THEN Get(map, col)[r + 1] ELSE Num(0)

Example1Map == <<<<ADR, <<Num(1), Num(2), Num(3)>>>>>>
Example1Columns == <<ADR, RoomNights>>

(* C1: exogMapToMatrix(map, columns, h) returns the declared columns in    *)
(* their order and exactly h rows of columns.length cells, rows[r][i]      *)
(* being map[columns[i]][r], or 0 when the column or the entry is missing; *)
(* the result is the same for every key order of the map, keys outside     *)
(* columns do not show, and Example 1 of the specification comes out.      *)
C1_MatrixAligned ==
  exCall.op = "exogMapToMatrix" =>
    LET m == exCall.out
    IN /\ m.columns = exColumns
       /\ Len(m.rows) = exHorizon
       /\ \A r \in 1..exHorizon :
            /\ Len(m.rows[r]) = Len(exColumns)
            /\ \A i \in 1..Len(exColumns) :
                 m.rows[r][i] = ExpectedCell(exMap, exColumns[i], r - 1)
       /\ \A other \in KeyOrders(exMap) :
            exogMapToMatrix(other, exColumns, exHorizon) = m
       /\ (exMap = Example1Map /\ exColumns = Example1Columns /\ exHorizon = 3
             => m.rows = <<<<Num(1), Num(0)>>, <<Num(2), Num(0)>>, <<Num(3), Num(0)>>>>)

\* a call with a column missing from the map, a map key that is not declared,
\* a declared column listed after it in the map, and an array shorter than h
C1_Witness ==
  /\ exCall.op = "exogMapToMatrix"
  /\ Len(exMap) = 2 /\ Len(exColumns) = 2
  /\ ~HasKey(exMap, exColumns[1])
  /\ exMap[1][1] \notin {exColumns[1], exColumns[2]}
  /\ exMap[2][1] = exColumns[2]
  /\ Len(exMap[2][2]) = 1 /\ exHorizon = 2
  /\ exCall.out.rows = <<<<Num(0), exMap[2][2][1]>>, <<Num(0), Num(0)>>>>

\* the shape both resizes must produce from (prev, columns, horizon)
IsResizeOf(out, prev, columns, horizon) ==
  /\ KeySet(out) = {columns[i] : i \in 1..Len(columns)}
  /\ \A k \in 1..Len(out) :
       /\ Len(out[k][2]) = horizon
       /\ \A i \in 0..(horizon - 1) :
            out[k][2][i + 1] = ExpectedCell(prev, out[k][1], i)

(* C3: resizing the map to (columns, horizon), by initGrid and by the      *)
(* horizon effect of the forecast page, gives every declared column        *)
(* exactly horizon numbers, entry i being the previous entry i when there  *)
(* was one and 0 otherwise; entries from index horizon on are dropped and  *)
(* no undeclared column is in the result.                                  *)
C3_ResizeExact ==
  exCall.op \in {"initGrid", "horizonEffect"} =>
    IsResizeOf(exCall.out, exMap, exColumns, exHorizon)

\* initGrid truncating one column, zero-padding another and dropping a third
C3_Witness ==
  /\ exCall.op = "initGrid"
  /\ Len(exMap) = 2 /\ Len(exColumns) = 2 /\ exHorizon = 2
  /\ exColumns[1] = exMap[2][1] /\ Len(exMap[2][2]) = 3 /\ Len(exMap[1][2]) = 3
  /\ ~HasKey(exMap, exColumns[2])
  /\ exCall.out = <<<<exColumns[1], SubSeq(exMap[2][2], 1, 2)>>,
                    <<exColumns[2], <<Num(0), Num(0)>>>>>>

----------------------------------------------------------------------------
(* The CsvCodec calls: toCSV of a record list and parseCSV of its output,  *)
(* and parseCSV of a text the user imports or pastes.                      *)
MaxCellLen == 1
MaxRecords == 2
MaxTextLen == 5

CsvDelimiters == {COMMA, SEMI}
CsvKeys == {<<"a">>, <<"b">>}
CsvCellChars == {"x", COMMA, SEMI, QUOTE, LF, CR}
CsvCellValues ==
  {Str(c) : c \in SeqsUpTo(CsvCellChars, MaxCellLen)} \cup {Null, Num(0)}

CsvRecordSet ==
  UNION {{[i \in 1..Len(ks) |-> <<ks[i], f[i]>>] : f \in [1..Len(ks) -> CsvCellValues]}
         : ks \in InjectiveSeqs(CsvKeys, Cardinality(CsvKeys))}

CsvRecordLists(n) == UNION {[1..k -> CsvRecordSet] : k \in 1..n}

Example2Text ==
  <<"a", COMMA, "b", LF, "1", COMMA, QUOTE, "x", COMMA, "y", QUOTE, LF,
    "2", COMMA, "z">>

CsvTextChars == {"a", COMMA, QUOTE, LF, CR, SPACE}
CsvTexts(n) == SeqsUpTo(CsvTextChars, n) \cup {Example2Text}

NoDoc == [headers |-> <<>>, rows |-> <<>>]

CsvInit ==
  /\ csvRecords \in CsvRecordLists(MaxRecords)
  /\ csvDelimiter \in CsvDelimiters
  /\ csvText = <<>>
  /\ csvDoc = NoDoc
  /\ csvStage = "records"

ParseInit ==
  /\ csvRecords = <<>>
  /\ csvDelimiter = COMMA
  /\ csvText \in CsvTexts(MaxTextLen)
  /\ csvDoc = NoDoc
  /\ csvStage = "text"

CallToCSV ==
  /\ csvStage = "records"
  /\ csvText' = toCSV(csvRecords, csvDelimiter)
  /\ csvStage' = "text"
  /\ UNCHANGED <<csvRecords, csvDelimiter, csvDoc, exogVars, pageVars, normVars, fnVars, chatVars,
                 gridVars, metricsVars>>

\* parseCSV(text, delimiter): onImportCSV passes the file's text as it is
CallParseCSV ==
  /\ csvStage = "text"
  /\ csvDoc' = parseCSV(csvText, csvDelimiter)
  /\ csvStage' = "parsed"
  /\ UNCHANGED <<csvRecords, csvDelimiter, csvText, exogVars, pageVars, normVars, fnVars, chatVars,
                 gridVars, metricsVars>>

\* doPaste: parseCSV(pasteText.trim())
CallParsePasted ==
  /\ csvStage = "text"
  /\ csvDoc' = parseCSV(Trim(csvText), COMMA)
  /\ csvStage' = "pasted"
  /\ UNCHANGED <<csvRecords, csvDelimiter, csvText, exogVars, pageVars, normVars, fnVars, chatVars,
                 gridVars, metricsVars>>

CsvNext == CallToCSV \/ CallParseCSV
ParseNext == CallParseCSV \/ CallParsePasted

InitCsv == CsvInit /\ ExogIdle /\ PageIdle /\ NormIdle /\ FnIdle /\ ChatIdle /\ GridIdle /\ MetricsIdle
SpecCsv == InitCsv /\ [][CsvNext]_vars
InitParse == ParseInit /\ ExogIdle /\ PageIdle /\ NormIdle /\ FnIdle /\ ChatIdle /\ GridIdle /\ MetricsIdle
SpecParse == InitParse /\ [][ParseNext]_vars

----------------------------------------------------------------------------
(* Claims about the CsvCodec *)

\* the string a record shows under a key: "" for a missing key, null, undefined
CellString(rec, key) ==
  IF Coalesce(Get(rec, key), Null) = Null THEN <<>> ELSE ToStringJS(Get(rec, key))

UnionOfKeys(records) == UNION {KeySet(records[i]) : i \in 1..Len(records)}

\* hs lists the union of the keys once each, in the order they are first seen
IsFirstSeenUnion(hs, records) ==
  LET firstRow(k) == CHOOSE i \in 1..Len(records) :
                       /\ HasKey(records[i], k)
                       /\ \A j \in 1..(i - 1) : ~HasKey(records[j], k)
      posIn(rec, k) == CHOOSE i \in 1..Len(rec) : rec[i][1] = k
      before(k1, k2) ==
        \/ firstRow(k1) < firstRow(k2)
        \/ /\ firstRow(k1) = firstRow(k2)
           /\ posIn(records[firstRow(k1)], k1) < posIn(records[firstRow(k1)], k2)
  IN /\ {hs[i] : i \in 1..Len(hs)} = UnionOfKeys(records)
     /\ \A i, j \in 1..Len(hs) : i < j => hs[i] # hs[j] /\ before(hs[i], hs[j])

\* the pieces of s between the separators that stand outside double quotes
RECURSIVE SplitOutsideQuotes(_, _, _, _, _)
SplitOutsideQuotes(s, sep, inQ, piece, done) ==
  IF Len(s) = 0 THEN Append(done, piece)
  ELSE IF s[1] = sep /\ ~inQ
       THEN SplitOutsideQuotes(Tail(s), sep, inQ, <<>>, Append(done, piece))
       ELSE SplitOutsideQuotes(Tail(s), sep, IF s[1] = QUOTE THEN ~inQ ELSE inQ,
                               Append(piece, s[1]), done)

LinesOf(text) == SplitOutsideQuotes(text, LF, FALSE, <<>>, <<>>)
FieldsOf(line, delimiter) == SplitOutsideQuotes(line, delimiter, FALSE, <<>>, <<>>)

\* the last record holds a value, so the parser's rule for trailing empty rows
\* does not apply to what toCSV wrote
LastRecordShows(records) ==
  \E k \in UnionOfKeys(records) : CellString(records[Len(records)], k) # <<>>

(* C4: CSV round trip. For every non-empty list of records,                *)
(* parseCSV(toCSV(rows)) has the union of the keys as its headers and the  *)
(* same cell values as strings, row by row and column by column, also for  *)
(* values holding commas, double quotes and newlines. (Stated for the      *)
(* default delimiter and for lists whose last record is not all empty.)    *)
C4_RoundTrip ==
  (csvStage = "parsed" /\ Len(csvRecords) > 0 /\ csvDelimiter = COMMA
     /\ LastRecordShows(csvRecords)) =>
    /\ IsFirstSeenUnion(csvDoc.headers, csvRecords)
    /\ Len(csvDoc.rows) = Len(csvRecords)
    /\ \A i \in 1..Len(csvDoc.rows) :
         /\ Len(csvDoc.rows[i]) = Len(csvDoc.headers)
         /\ \A j \in 1..Len(csvDoc.rows[i]) :
              csvDoc.rows[i][j] = CellString(csvRecords[i], csvDoc.headers[j])

\* the reference scan of C5: the rules of the claim, one character at a time;
\* the end of the input ends the last cell and the last row
RECURSIVE RefScan(_, _, _, _, _, _)
RefScan(text, delimiter, inQ, cell, row, rows) ==
  IF Len(text) = 0 THEN Append(rows, Append(row, cell))
  ELSE LET ch == text[1]
           doubled == Len(text) > 1 /\ text[2] = QUOTE
       IN CASE ch = QUOTE /\ inQ /\ doubled ->
                 RefScan(SubSeq(text, 3, Len(text)), delimiter, inQ,
                         Append(cell, QUOTE), row, rows)
            [] ch = QUOTE /\ ~(inQ /\ doubled) ->
                 RefScan(Tail(text), delimiter, ~inQ, cell, row, rows)
            [] ch # QUOTE /\ inQ ->
                 RefScan(Tail(text), delimiter, inQ, Append(cell, ch), row, rows)
            [] ch = delimiter /\ ~inQ ->
                 RefScan(Tail(text), delimiter, inQ, <<>>, Append(row, cell), rows)
            [] ch = CR /\ ~inQ /\ Len(text) > 1 /\ text[2] = LF ->
                 RefScan(SubSeq(text, 3, Len(text)), delimiter, inQ, <<>>, <<>>,
                         Append(rows, Append(row, cell)))
            [] ch \in {CR, LF} /\ ~inQ /\ ~(ch = CR /\ Len(text) > 1 /\ text[2] = LF) ->
                 RefScan(Tail(text), delimiter, inQ, <<>>, <<>>,
                         Append(rows, Append(row, cell)))
            [] OTHER ->
                 RefScan(Tail(text), delimiter, inQ, Append(cell, ch), row, rows)

\* the rows that remain once the trailing rows of empty cells are discarded
KeptRows(all) ==
  LET shows(k) == \E c \in 1..Len(all[k]) : all[k][c] # <<>>
      n == IF \E k \in 1..Len(all) : shows(k)
           THEN CHOOSE k \in 1..Len(all) :
                  shows(k) /\ \A m \in (k + 1)..Len(all) : ~shows(m)
           ELSE 0
  IN SubSeq(all, 1, n)

DocOf(rows) ==
  IF Len(rows) = 0 THEN [headers |-> <<>>, rows |-> <<>>]
  ELSE [headers |-> rows[1], rows |-> SubSeq(rows, 2, Len(rows))]

Example2Doc ==
  [headers |-> <<<<"a">>, <<"b">>>>,
   rows |-> <<<<<<"1">>, <<"x", COMMA, "y">>>>, <<<<"2">>, <<"z">>>>>>]

(* C5: parseCSV is one left-to-right scan with an in-quotes flag: inside   *)
(* quotes a delimiter or a row terminator is part of the cell and a        *)
(* doubled quote is one literal quote; outside quotes the delimiter ends   *)
(* the cell and \r\n, \n or \r end the row; the first row becomes the     *)
(* headers. parse("a,b\n1,\"x,y\"\n2,z") is Example 2's document.          *)
C5_ScanRules ==
  csvStage = "parsed" =>
    /\ csvDoc = DocOf(KeptRows(RefScan(csvText, csvDelimiter, FALSE, <<>>, <<>>, <<>>)))
    /\ (csvText = Example2Text => csvDoc = Example2Doc)

\* what C6 expects toCSV to write for a value under the delimiter in use
ExpectedField(val, delimiter) ==
  IF Coalesce(val, Null) = Null THEN <<>>
  ELSE LET str == ToStringJS(val)
       IN IF \E i \in 1..Len(str) : str[i] \in {delimiter, QUOTE, LF}
          THEN <<QUOTE>> \o DoubleQuotes(str) \o <<QUOTE>>
          ELSE str

(* C6: toCSV(rows, delimiter) wraps in double quotes, internal quotes      *)
(* doubled, every value that holds the delimiter in use, a double quote or *)
(* a newline, whatever the delimiter; every other value is written as is.  *)
C6_QuotesForDelimiter ==
  (csvStage = "text" /\ Len(csvRecords) > 0) =>
    \E hs \in SeqsUpTo(CsvKeys, Cardinality(CsvKeys)) :
      /\ IsFirstSeenUnion(hs, csvRecords)
      /\ csvText =
           Join(<<Join(hs, <<csvDelimiter>>)>> \o
                [k \in 1..Len(csvRecords) |->
                   Join([h \in 1..Len(hs) |->
                           ExpectedField(Get(csvRecords[k], hs[h]), csvDelimiter)],
                        <<csvDelimiter>>)],
                <<LF>>)

(* C7: toCSV output is rectangular: the header line lists the union of the *)
(* keys in first-seen order, once each, and every following line has one   *)
(* field per header, empty where the record lacks the key or holds         *)
(* null/undefined.                                                         *)
C7_Rectangular ==
  (csvStage = "text" /\ UnionOfKeys(csvRecords) # {}) =>
    LET lines == LinesOf(csvText)
        hs == FieldsOf(lines[1], csvDelimiter)
    IN /\ Len(lines) = 1 + Len(csvRecords)
       /\ IsFirstSeenUnion(hs, csvRecords)
       /\ \A k \in 1..Len(csvRecords) :
            LET fields == FieldsOf(lines[k + 1], csvDelimiter)
            IN /\ Len(fields) = Len(hs)
               /\ \A h \in 1..Len(hs) :
                    CellString(csvRecords[k], hs[h]) = <<>> => fields[h] = <<>>

\* a text of one line: no row terminator and no quote
IsOneLine(text) == \A i \in 1..Len(text) : text[i] \notin {LF, CR, QUOTE}

(* C8 as stated: parseCSV returns {headers: [], rows: []} for an empty     *)
(* input and for a header-only input.                                      *)
C8_HeaderOnlyIsEmpty ==
  (csvStage = "parsed" /\ IsOneLine(csvText)) => csvDoc = NoDoc

(* C8, amended: parseCSV returns {headers: [], rows: []} for an empty      *)
(* input and for an input whose rows hold only empty cells; for a          *)
(* header-only input it returns the header row as headers, with rows: [];  *)
(* trailing rows whose cells are all empty are discarded before the header *)
(* row is taken.                                                           *)
C8_EmptyAndHeaderOnly ==
  csvStage = "parsed" =>
    LET all == scannedRows(csvText, csvDelimiter)
    IN /\ csvDoc = DocOf(KeptRows(all))
       /\ (csvText = <<>> => csvDoc = NoDoc)
       /\ ((\A k \in 1..Len(all) : \A c \in 1..Len(all[k]) : all[k][c] = <<>>)
             => csvDoc = NoDoc)
       /\ ((IsOneLine(csvText) /\ \E i \in 1..Len(csvText) : csvText[i] # csvDelimiter)
             => csvDoc = [headers |-> FieldsOf(csvText, csvDelimiter), rows |-> <<>>])

\* a header row followed by blank lines only
C8_Witness ==
  /\ csvStage = "parsed"
  /\ csvText = <<"a", COMMA, "a", LF, LF>>
  /\ csvDoc = [headers |-> <<<<"a">>, <<"a">>>>, rows |-> <<>>]

\* the text ends inside a quoted field
EndsInQuotes(text, delimiter) == scanCSV(text, delimiter, 1, ScanStart).inQuotes

(* C9: when the text ends inside a quoted field, parseCSV takes the end of *)
(* the input as the closing quote: it returns the document it returns for  *)
(* the same text with the missing closing quote appended.                  *)
C9_ImplicitClose ==
  (csvStage = "parsed" /\ EndsInQuotes(csvText, csvDelimiter)) =>
    csvDoc = parseCSV(Append(csvText, QUOTE), csvDelimiter)

----------------------------------------------------------------------------
(* The forecast page as a state machine. An action is one event handler    *)
(* together with the renders and effects it causes: the page's horizon         *)
(* effect and the grid's sync effect run before the next event is handled. *)
HorizonSpan == 1
MaxEdits == 1
MaxSubmits == 2

\* what /api/debug/exog answers
ServerColumns == <<ADR, RoomNights>>
\* what the user types into a cell
CellInputs == {Str(<<"5">>), Str(<<"1", COMMA, "5">>), Str(<<"x">>)}

NotPending == [none |-> TRUE]

PageInit ==
  /\ exogColumns = <<>>
  /\ pageHorizon = DEFAULTS.horizon
  \* Object.fromEntries(exogColumns.map(...)) with exogColumns still []
  /\ manualExog = <<>>
  /\ grid = initGrid(<<>>, DEFAULTS.horizon, <<>>)
  /\ formValues = [horizon |-> DEFAULTS.horizon, frequency |-> DEFAULTS.frequency,
                   alpha |-> DEFAULTS.alpha, use_auto_exog |-> TRUE,
                   exog_strategy |-> DEFAULTS.exogStrategy,
                   \* defaultValues of the page (the form has no control for them)
                   clip_non_negative |-> FALSE, floor |-> DEFAULTS.floor]
  /\ isPending = NotPending
  /\ posted = {}
  /\ result = "none"
  /\ error = "none"
  /\ edits = 0

\* useDebugExog resolves: exogColumns changes, the horizon effect resizes
\* manualExog and the grid syncs to the new value
ExogInfoLoaded ==
  /\ exogColumns = <<>>
  /\ exogColumns' = ServerColumns
  /\ manualExog' = horizonEffect(ServerColumns, pageHorizon, manualExog)
  /\ grid' = initGrid(ServerColumns, pageHorizon, manualExog')
  /\ UNCHANGED <<pageHorizon, formValues, isPending, posted, result, error, edits,
                 exogVars, csvVars, normVars, fnVars, chatVars,
                 gridVars, metricsVars>>

\* ForecastForm: the stepper buttons, setHorizon(horizon + d)
FormStepHorizon ==
  \E d \in {-1, 1} :
    /\ IF d = 1 THEN formValues.horizon < 365 ELSE formValues.horizon > 1
    /\ clamp(formValues.horizon + d) \in
         (DEFAULTS.horizon - HorizonSpan)..(DEFAULTS.horizon + HorizonSpan)
    /\ formValues' = [formValues EXCEPT !.horizon = clamp(formValues.horizon + d)]
    /\ UNCHANGED <<exogColumns, pageHorizon, manualExog, grid, isPending, posted,
                   result, error, edits, exogVars, csvVars, normVars, fnVars, chatVars,
                 gridVars, metricsVars>>

\* ForecastForm: the "Use Auto Exogenous Variables" toggle
FormToggleAuto ==
  /\ formValues' = [formValues EXCEPT !.use_auto_exog = ~formValues.use_auto_exog]
  /\ UNCHANGED <<exogColumns, pageHorizon, manualExog, grid, isPending, posted,
                 result, error, edits, exogVars, csvVars, normVars, fnVars, chatVars,
                 gridVars, metricsVars>>

\* emit(next): setGrid(next) and onChange(next), which is the page's
\* setManualExog; the sync effect then runs when JSON.stringify(value) changed
emit(next) ==
  /\ manualExog' = next
  /\ grid' = IF next = manualExog THEN next
             ELSE initGrid(exogColumns, pageHorizon, next)
  /\ emitted' = [map |-> next, columns |-> exogColumns, horizon |-> pageHorizon]

\* ManualExogGrid: an edit of a cell of the first or of the last row
GridSetCell ==
  /\ isPending = NotPending
  /\ edits < MaxEdits
  /\ \E colIdx \in 0..(Len(exogColumns) - 1), rowIdx \in {0, pageHorizon - 1},
        raw \in CellInputs :
       emit(setCell(grid, exogColumns, colIdx, rowIdx, raw))
  /\ edits' = edits + 1
  /\ UNCHANGED <<exogColumns, pageHorizon, formValues, isPending, posted, result,
                 error, fillCol, importing,
                 exogVars, csvVars, normVars, fnVars, chatVars, metricsVars>>

\* ManualExogGrid.clearAll
GridClearAll ==
  /\ isPending = NotPending
  /\ edits < MaxEdits
  /\ emit(initGrid(exogColumns, pageHorizon, <<>>))
  /\ edits' = edits + 1
  /\ UNCHANGED <<exogColumns, pageHorizon, formValues, isPending, posted, result,
                 error, fillCol, importing,
                 exogVars, csvVars, normVars, fnVars, chatVars, metricsVars>>

\* ForecastPage.handleSubmit up to its await: setError(null), setHorizon and
\* the call of doPredict, whose mutationFn posts withPredictDefaults(input).
\* manualExog is the value of the render the handler was created in; the
\* horizon effect runs after the handler, on the next render.
HandleSubmit ==
  /\ isPending = NotPending
  /\ Cardinality(posted) < MaxSubmits
  /\ LET body == formBody(formValues)
         useAuto == body.flags.use_auto_exog # FALSE
         input == IF ~useAuto
                  THEN [horizon |-> body.horizon, frequency |-> body.frequency,
                        alpha |-> body.alpha, exog |-> ExogPayload(manualExog)]
                  ELSE body
         sent == withPredictDefaults(input)
     IN /\ error' = "none"
        /\ pageHorizon' = body.horizon
        /\ isPending' = sent
        /\ posted' = posted \cup {sent}
        /\ manualExog' = horizonEffect(exogColumns, body.horizon, manualExog)
        /\ grid' = initGrid(exogColumns, body.horizon, manualExog')
  /\ UNCHANGED <<exogColumns, formValues, result, edits, exogVars, csvVars, normVars, fnVars, chatVars,
                 gridVars, metricsVars>>

\* the request resolves: setResult(r)
PredictResolved ==
  /\ isPending # NotPending
  /\ result' = "forecast"
  /\ isPending' = NotPending
  /\ UNCHANGED <<exogColumns, pageHorizon, manualExog, grid, formValues, posted,
                 error, edits, exogVars, csvVars, normVars, fnVars, chatVars,
                 gridVars, metricsVars>>

\* the request rejects: setError(getErrorMessage(e))
PredictRejected ==
  /\ isPending # NotPending
  /\ error' = "Request failed"
  /\ isPending' = NotPending
  /\ UNCHANGED <<exogColumns, pageHorizon, manualExog, grid, formValues, posted,
                 result, edits, exogVars, csvVars, normVars, fnVars, chatVars,
                 gridVars, metricsVars>>

Next ==
  \/ ExogInfoLoaded
  \/ FormStepHorizon
  \/ FormToggleAuto
  \/ GridSetCell
  \/ GridClearAll
  \/ HandleSubmit
  \/ PredictResolved
  \/ PredictRejected

Init == PageInit /\ ExogIdle /\ CsvIdle /\ NormIdle /\ FnIdle /\ ChatIdle /\ GridIdle /\ MetricsIdle

Spec == Init /\ [][Next]_vars

----------------------------------------------------------------------------
(* Claims about the forecast page *)

(* C2: the grid never desynchronizes from the requested period count:      *)
(* every manual-map predict request that is sent carries, for each         *)
(* exogenous column, an array of exactly body.horizon entries, body being  *)
(* that same request.                                                      *)
C2_SentMapMatchesHorizon ==
  \A body \in posted :
    "exog" \in DOMAIN body =>
      \A k \in 1..Len(body.exog.map) : Len(body.exog.map[k][2]) = body.horizon

(* C26: auto-mode requests submitted from the forecast page default        *)
(* clip_non_negative to false: unless the user changes it, the body posted *)
(* to /api/predict after withPredictDefaults has                           *)
(* flags.clip_non_negative = false.                                        *)
C26_ClipDefaultsFalse ==
  \A body \in posted :
    "exog" \notin DOMAIN body =>
      (formValues.clip_non_negative = FALSE => body.flags.clip_non_negative = FALSE)

----------------------------------------------------------------------------
(* normalizeForecastPoints on the raw points of a response *)
MaxNumStrLen == 3
MaxPoints == 3

NumStrChars == {"1", "5", "-", ".", SPACE, "a"}
\* a raw numeric of every kind: finite, NaN, infinite, numeric string,
\* non-numeric string, null, missing
KindSamples ==
  {Num(7), NaN, PosInf, Str(<<"1", ".", "5">>), Str(<<"a">>), Null, Undef}
RawNumerics ==
  KindSamples \cup {Num(0), Dec(-25, 1), NegInf, Str(InfinityLit)}
    \cup {Str(c) : c \in SeqsUpTo(NumStrChars, MaxNumStrLen)}

RawPoint(ds, y, lo, hi) == [ds |-> ds, yhat |-> y, yhat_lower |-> lo, yhat_upper |-> hi]

Timestamps == {"2025-01-01", "2025-01-02", "2025-01-03"}
\* points told apart by their timestamp, with an estimate that coerces, one
\* that is a numeric string and ones that fail
SeriesPoints ==
  {RawPoint(ds, y, Null, Num(7)) :
     ds \in Timestamps, y \in {Num(7), Str(<<"1", ".", "5">>), Str(<<"a">>), NaN}}

\* a null or missing array; an array of up to MaxPoints points; or one point
\* with one field over every raw numeric, the other two over the samples
NormInit ==
  /\ \/ normRaw \in {Null, Undef}
     \/ \E pts \in SeqsUpTo(SeriesPoints, MaxPoints) : normRaw = Arr(pts)
     \/ \E w \in RawNumerics, a \in KindSamples, b \in KindSamples :
          normRaw \in {Arr(<<RawPoint("2025-01-01", w, a, b)>>),
                       Arr(<<RawPoint("2025-01-01", a, w, b)>>),
                       Arr(<<RawPoint("2025-01-01", a, b, w)>>)}
  /\ normOut = <<>>
  /\ normStage = "raw"

CallNormalize ==
  /\ normStage = "raw"
  /\ normOut' = normalizeForecastPoints(normRaw)
  /\ normStage' = "normalized"
  /\ UNCHANGED <<normRaw, exogVars, csvVars, pageVars, fnVars, chatVars,
                 gridVars, metricsVars>>

NormNext == CallNormalize

InitNorm == NormInit /\ ExogIdle /\ CsvIdle /\ PageIdle /\ FnIdle /\ ChatIdle /\ GridIdle /\ MetricsIdle
SpecNorm == InitNorm /\ [][NormNext]_vars

----------------------------------------------------------------------------
(* Claims about the ForecastNormalizer *)

\* raw numerics that are no number: coercion fails on them
FailsCoercion(v) ==
  \/ v \in {Null, Undef, NaN, PosInf, NegInf, Str(InfinityLit)}
  \/ v.t = "str" /\ \E i \in 1..Len(v.s) : v.s[i] = "a"

(* C10: for every raw point whose yhat and bounds are each a number        *)
(* (finite, NaN or infinite), a numeric string, a non-numeric string, null *)
(* or missing, the normalized point-estimate is a finite number, 0 when    *)
(* coercion fails, and each normalized bound is a finite number or absent; *)
(* no normalized field is NaN or infinite.                                 *)
C10_NormalizedFinite ==
  normStage = "normalized" /\ normRaw.t = "arr" =>
    /\ Len(normOut) = Len(normRaw.a)
    /\ \A i \in 1..Len(normOut) :
         /\ normOut[i].yhat.t = "num"
         /\ normOut[i].yhat_lower.t \in {"num", "undef"}
         /\ normOut[i].yhat_upper.t \in {"num", "undef"}
         /\ (FailsCoercion(normRaw.a[i].yhat) => normOut[i].yhat = Num(0))
         /\ (normRaw.a[i].yhat.t = "num" => normOut[i].yhat = normRaw.a[i].yhat)
         /\ (FailsCoercion(normRaw.a[i].yhat_lower) => normOut[i].yhat_lower = Undef)
         /\ (FailsCoercion(normRaw.a[i].yhat_upper) => normOut[i].yhat_upper = Undef)

\* a point with a NaN estimate, a non-numeric lower and a numeric-string upper
C10_Witness ==
  /\ normStage = "normalized"
  /\ normRaw = Arr(<<RawPoint("2025-01-01", NaN, Str(<<"a">>), Str(<<"1", ".", "5">>))>>)
  /\ normOut = <<RawPoint("2025-01-01", Num(0), Undef, Dec(15, 1))>>

(* C11: normalizeForecastPoints is a 1:1 mapping: the output has the       *)
(* length of the input and output element i carries the timestamp of input *)
(* element i (nothing filtered out, added or reordered); a null or missing *)
(* input array yields an empty array.                                      *)
C11_OneToOne ==
  normStage = "normalized" =>
    /\ (normRaw \in {Null, Undef} => normOut = <<>>)
    /\ (normRaw.t = "arr" =>
          /\ Len(normOut) = Len(normRaw.a)
          /\ \A i \in 1..Len(normOut) : normOut[i].ds = normRaw.a[i].ds)

\* three points out of timestamp order, the middle one failing coercion
C11_Witness ==
  /\ normStage = "normalized"
  /\ normRaw = Arr(<<RawPoint("2025-01-02", Num(7), Null, Num(7)),
                     RawPoint("2025-01-01", Str(<<"a">>), Null, Num(7)),
                     RawPoint("2025-01-02", NaN, Null, Num(7))>>)
  /\ Len(normOut) = 3
  /\ normOut[2] = RawPoint("2025-01-01", Num(0), Undef, Num(7))

----------------------------------------------------------------------------
(* NumericCoercer, called as pure functions *)

\* fallbacks of type number: finite ones, NaN and the infinities
Fallbacks == {Num(0), Num(7), Dec(-25, 1), NaN, PosInf, NegInf}

CoerceInit ==
  /\ fnArgs \in [v : RawNumerics, x : Fallbacks]
  /\ fnCall = NoCall

CallToNumberStrict ==
  /\ fnCall = NoCall
  /\ fnCall' = [op |-> "toNumberStrict", out |-> toNumberStrict(fnArgs.v, fnArgs.x)]
  /\ UNCHANGED <<fnArgs, exogVars, csvVars, pageVars, normVars, chatVars,
                 gridVars, metricsVars>>

\* toNumber of the raw value, or of what toNumberStrict returned
CallToNumber ==
  /\ fnCall.op \in {"none", "toNumberStrict"}
  /\ LET arg == IF fnCall.op = "none" THEN fnArgs.v ELSE fnCall.out
     IN fnCall' = [op |-> "toNumber", ofStrict |-> fnCall.op = "toNumberStrict",
                   arg |-> arg, out |-> toNumber(arg)]
  /\ UNCHANGED <<fnArgs, exogVars, csvVars, pageVars, normVars, chatVars,
                 gridVars, metricsVars>>

CoerceNext == CallToNumberStrict \/ CallToNumber

InitCoerce == CoerceInit /\ ExogIdle /\ CsvIdle /\ PageIdle /\ NormIdle /\ ChatIdle /\ GridIdle /\ MetricsIdle
SpecCoerce == InitCoerce /\ [][CoerceNext]_vars

(* C12: for every raw numeric v and every fallback x,                      *)
(* toNumber(toNumberStrict(v, x)) is defined (never absent).               *)
C12_AlwaysDefined ==
  fnCall.op = "toNumber" /\ fnCall.ofStrict => fnCall.out # Undef

(* C12, as the code has it: for every raw numeric v and every finite       *)
(* fallback x, toNumber(toNumberStrict(v, x)) is defined and equals        *)
(* toNumberStrict(v, x); toNumberStrict returns v's finite number when v   *)
(* coerces and the fallback itself otherwise, so a NaN or infinite         *)
(* fallback comes back as it is and toNumber of it is absent.              *)
C12_DefinedForFiniteFallback ==
  fnCall.op = "toNumber" /\ fnCall.ofStrict =>
    /\ fnCall.arg = (IF toNumber(fnArgs.v) = Undef THEN fnArgs.x ELSE toNumber(fnArgs.v))
    /\ (IsFinite(fnArgs.x) => fnCall.out # Undef /\ fnCall.out = fnCall.arg)
    /\ (~IsFinite(fnArgs.x) /\ toNumber(fnArgs.v) = Undef => fnCall.out = Undef)

\* a value that fails coercion comes back as the finite fallback, twice
C12_Witness ==
  /\ fnCall.op = "toNumber" /\ fnCall.ofStrict
  /\ fnArgs = [v |-> Str(<<"a">>), x |-> Num(7)]
  /\ fnCall.out = Num(7)

----------------------------------------------------------------------------
(* The ExogAligner over raw cell inputs *)

MaxCellStrLen == 3

CellStrChars == {"1", "5", COMMA, SPACE, ".", "a"}
\* a number, a numeric string, a string with separators or spaces, the empty
\* string, another string, null, missing
CellKinds ==
  {Num(7), Dec(-25, 1), NaN, PosInf, Null, Undef}
    \cup {Str(c) : c \in SeqsUpTo(CellStrChars, MaxCellStrLen)}

\* one declared column whose first cell is any cell input
CellInit ==
  /\ \E cell \in CellKinds, rest \in SeqsUpTo({Num(1), Str(<<"5">>)}, 1) :
       exMap = <<<<ADR, <<cell>> \o rest>>>>
  /\ exColumns \in {<<ADR>>, <<RoomNights, ADR>>}
  /\ exHorizon \in 1..2
  /\ exCall = NoCall

InitCell == CellInit /\ CsvIdle /\ PageIdle /\ NormIdle /\ FnIdle /\ ChatIdle /\ GridIdle /\ MetricsIdle
SpecCell == InitCell /\ [][ExogNext]_vars

\* the cell written for (column name, 0-based row) by a matrix or a map result
WrittenCell(call, name, r) ==
  IF call.op = "exogMapToMatrix"
  THEN LET c == CHOOSE c \in 1..Len(call.out.columns) : call.out.columns[c] = name
       IN call.out.rows[r + 1][c]
  ELSE At(Get(call.out, name), r)

(* C13: the exogenous aligner coerces through the NumericCoercer: for      *)
(* every cell input (number, numeric string, string with separators or     *)
(* spaces, empty string, other string, null, missing) the value written by *)
(* exogMapToMatrix and by initGrid equals toNumberStrict(input, 0).        *)
C13_CoercesViaStrict ==
  exCall.op \in {"exogMapToMatrix", "initGrid"} =>
    \A r \in 0..(exHorizon - 1) :
      WrittenCell(exCall, ADR, r) = toNumberStrict(At(Get(exMap, ADR), r), Num(0))

----------------------------------------------------------------------------
(* RequestDefaulter, called as a pure function *)

\* a field left out, or present with one of the values
OptField(name, vals) == {<<>>} \cup {name :> v : v \in vals}

FlagsSet ==
  {u @@ st @@ c @@ fl :
     u \in OptField("use_auto_exog", BOOLEAN),
     st \in OptField("exog_strategy", {"zeros", "smart"}),
     c \in OptField("clip_non_negative", BOOLEAN),
     fl \in OptField("floor", {Num(0), Num(5)})}

\* map and matrix payloads (an empty map included), and exog: null / undefined
ExogPayloads ==
  {ExogPayload(<<>>), ExogPayload(<<<<ADR, <<Num(1)>>>>>>),
   [t |-> "matrix", columns |-> <<ADR>>, rows |-> <<<<Num(1)>>>>]}

PredictInputs ==
  {h @@ fr @@ al @@ fg @@ ex :
     h \in OptField("horizon", {14, 30}),
     fr \in OptField("frequency", {"D", "W"}),
     al \in OptField("alpha", {Dec(1, 1), NaN, Null, Str(<<"0", ".", "1">>)}),
     fg \in OptField("flags", FlagsSet),
     ex \in OptField("exog", ExogPayloads \cup {Null, Undef})}

DefaultsInit ==
  /\ \E input \in PredictInputs : fnArgs = [input |-> input]
  /\ fnCall = NoCall

CallWithPredictDefaults ==
  /\ fnCall = NoCall
  /\ fnCall' = [op |-> "withPredictDefaults", times |-> 1,
                out |-> withPredictDefaults(fnArgs.input)]
  /\ UNCHANGED <<fnArgs, exogVars, csvVars, pageVars, normVars, chatVars,
                 gridVars, metricsVars>>

\* withPredictDefaults applied to a body it returned (hashPredictBody of a
\* body that usePredict will default again)
CallWithPredictDefaultsAgain ==
  /\ fnCall.op = "withPredictDefaults" /\ fnCall.times = 1
  /\ fnCall' = [op |-> "withPredictDefaults", times |-> 2, first |-> fnCall.out,
                out |-> withPredictDefaults(fnCall.out)]
  /\ UNCHANGED <<fnArgs, exogVars, csvVars, pageVars, normVars, chatVars,
                 gridVars, metricsVars>>

DefaultsNext == CallWithPredictDefaults \/ CallWithPredictDefaultsAgain

InitDefaults == DefaultsInit /\ ExogIdle /\ CsvIdle /\ PageIdle /\ NormIdle /\ ChatIdle /\ GridIdle /\ MetricsIdle
SpecDefaults == InitDefaults /\ [][DefaultsNext]_vars

\* the caller's value of a field when supplied, otherwise the default
Supplied(rec, f, d) == IF f \in DOMAIN rec THEN rec[f] ELSE d
CallerFlags(input) == IF "flags" \in DOMAIN input THEN input.flags ELSE <<>>
NoPayload(input) == "exog" \notin DOMAIN input \/ input.exog \in {Null, Undef}

(* C14: for every predict input without an exogenous payload (exog missing *)
(* or null), withPredictDefaults returns an Auto body with                 *)
(* flags.use_auto_exog = true whatever the caller passed for it, where     *)
(* horizon, frequency, alpha, exog_strategy, clip_non_negative and floor   *)
(* are the caller's values when supplied (for alpha: a number) and         *)
(* otherwise the defaults 14, "D", 0.05, "smart", true and 0; so           *)
(* applyDefaults({horizon:14, frequency:"D"}) has use_auto_exog true and   *)
(* exog_strategy "smart".                                                  *)
C14_AutoBody ==
  /\ withPredictDefaults([horizon |-> 14, frequency |-> "D"]).flags.use_auto_exog
  /\ withPredictDefaults([horizon |-> 14, frequency |-> "D"]).flags.exog_strategy = "smart"
  /\ fnCall.op = "withPredictDefaults" /\ fnCall.times = 1 /\ NoPayload(fnArgs.input) =>
       LET input == fnArgs.input
           out == fnCall.out
       IN /\ DOMAIN out = {"horizon", "frequency", "alpha", "flags"}
          /\ DOMAIN out.flags =
               {"use_auto_exog", "exog_strategy", "clip_non_negative", "floor"}
          /\ out.flags.use_auto_exog = TRUE
          /\ out.horizon = Supplied(input, "horizon", 14)
          /\ out.frequency = Supplied(input, "frequency", "D")
          /\ out.alpha = (IF "alpha" \in DOMAIN input /\ IsNumberType(input.alpha)
                          THEN input.alpha ELSE Dec(5, 2))
          /\ out.flags.exog_strategy = Supplied(CallerFlags(input), "exog_strategy", "smart")
          /\ out.flags.clip_non_negative =
               Supplied(CallerFlags(input), "clip_non_negative", TRUE)
          /\ out.flags.floor = Supplied(CallerFlags(input), "floor", Num(0))

\* the caller asked for use_auto_exog false and zeros, gave no exog: forced to auto
C14_Witness ==
  /\ fnCall.op = "withPredictDefaults" /\ fnCall.times = 1
  /\ fnArgs.input = [horizon |-> 30, exog |-> Null,
                     flags |-> [use_auto_exog |-> FALSE, exog_strategy |-> "zeros"]]
  /\ fnCall.out = [horizon |-> 30, frequency |-> "D", alpha |-> Dec(5, 2),
                   flags |-> [use_auto_exog |-> TRUE, exog_strategy |-> "zeros",
                              clip_non_negative |-> TRUE, floor |-> Num(0)]]

(* C15: for every predict input that carries exogenous data (a map or a    *)
(* matrix, including an empty map), withPredictDefaults returns the input  *)
(* unchanged: no field is added, removed or altered, and applying it again *)
(* changes nothing (it is idempotent on every input).                      *)
C15_PassThroughIdempotent ==
  /\ fnCall.op = "withPredictDefaults" /\ fnCall.times = 1 /\ ~NoPayload(fnArgs.input) =>
       /\ DOMAIN fnCall.out = DOMAIN fnArgs.input
       /\ \A f \in DOMAIN fnArgs.input : fnCall.out[f] = fnArgs.input[f]
  /\ fnCall.op = "withPredictDefaults" /\ fnCall.times = 2 =>
       /\ DOMAIN fnCall.out = DOMAIN fnCall.first
       /\ \A f \in DOMAIN fnCall.first : fnCall.out[f] = fnCall.first[f]

\* a body with an empty map and no alpha, defaulted twice, is still that body
C15_Witness ==
  /\ fnCall.op = "withPredictDefaults" /\ fnCall.times = 2
  /\ fnArgs.input = [horizon |-> 14, frequency |-> "W", exog |-> ExogPayload(<<>>)]
  /\ fnCall.out = fnArgs.input

----------------------------------------------------------------------------
(* StableKeyer : stableStringify, hashString, hashObject                   *)
(*                                                                         *)
(* Objects and arrays live in a heap (a sequence of objects); a value is a *)
(* primitive or a reference Ref(i) to heap[i], so that shared and cyclic   *)
(* references can be told from copies. A heap object is Obj(entries) or    *)
(* Arr(elements).                                                          *)

Ref(i) == [t |-> "ref", id |-> i]
Obj(e) == [t |-> "obj", e |-> e]
Bool(b) == [t |-> "bool", b |-> b]
BACKSLASH == "\\"

\* the ASCII characters of codes 32..95 and 97..126
AsciiLow ==
  <<
   " ", "!", "\"", "#", "$", "%", "&", "'", "(", ")", "*", "+",
   ",", "-", ".", "/", "0", "1", "2", "3", "4", "5", "6", "7",
   "8", "9", ":", ";", "<", "=", ">", "?", "@", "A", "B", "C",
   "D", "E", "F", "G", "H", "I", "J", "K", "L", "M", "N", "O",
   "P", "Q", "R", "S", "T", "U", "V", "W", "X", "Y", "Z", "[",
   "\\", "]", "^", "_"
  >>
AsciiHigh ==
  <<
   "a", "b", "c", "d", "e", "f", "g", "h", "i", "j", "k", "l",
   "m", "n", "o", "p", "q", "r", "s", "t", "u", "v", "w", "x",
   "y", "z", "{", "|", "}", "~"
  >>
\* s.charCodeAt(i) for those characters
charCodeAt(c) ==
  IF \E i \in 1..Len(AsciiLow) : AsciiLow[i] = c
  THEN 31 + (CHOOSE i \in 1..Len(AsciiLow) : AsciiLow[i] = c)
  ELSE 96 + (CHOOSE i \in 1..Len(AsciiHigh) : AsciiHigh[i] = c)

\* the order of Array.prototype.sort() without a comparator: by code units
RECURSIVE KeyLess(_, _)
KeyLess(a, b) ==
  IF Len(b) = 0 THEN FALSE
  ELSE IF Len(a) = 0 THEN TRUE
  ELSE IF a[1] = b[1] THEN KeyLess(Tail(a), Tail(b))
  ELSE charCodeAt(a[1]) < charCodeAt(b[1])

RECURSIVE InsertKey(_, _)
InsertKey(k, sorted) ==
  IF Len(sorted) = 0 THEN <<k>>
  ELSE IF KeyLess(k, sorted[1]) THEN <<k>> \o sorted
  ELSE <<sorted[1]>> \o InsertKey(k, Tail(sorted))

\* a variant that leaves the keys in insertion order
SortedKeys_unsorted(keys) == keys

\* Object.keys(val).sort()
RECURSIVE SortedKeys(_)
SortedKeys(keys) ==
  IF Len(keys) = 0 THEN <<>> ELSE InsertKey(Head(keys), SortedKeys(Tail(keys)))

(* The sorter closure of stableStringify. `seen` is the WeakSet, threaded  *)
(* through the traversal; the result carries the value returned, the set   *)
(* afterwards and the number of sorter calls made.                         *)
RECURSIVE sorter(_, _, _)
RECURSIVE sorterMap(_, _, _, _, _)
RECURSIVE sorterKeys(_, _, _, _, _, _)

\* val.map(sorter)
sorterMap(elems, heap, seen, acc, calls) ==
  IF Len(elems) = 0 THEN [v |-> Arr(acc), seen |-> seen, calls |-> calls]
  ELSE LET r == sorter(Head(elems), heap, seen)
       IN sorterMap(Tail(elems), heap, r.seen, Append(acc, r.v), calls + r.calls)

\* for (const k of Object.keys(val).sort()) out[k] = sorter(val[k])
sorterKeys(keys, entries, heap, seen, out, calls) ==
  IF Len(keys) = 0 THEN [v |-> Obj(out), seen |-> seen, calls |-> calls]
  ELSE LET r == sorter(Get(entries, Head(keys)), heap, seen)
       IN sorterKeys(Tail(keys), entries, heap, r.seen,
                     Put(out, Head(keys), r.v), calls + r.calls)

\* a variant that writes null where an object is met again
sorter_nullOnRevisit(val, heap, seen) ==
  IF val.t # "ref" THEN [v |-> val, seen |-> seen, calls |-> 1]
  ELSE IF val.id \in seen THEN [v |-> Null, seen |-> seen, calls |-> 1]
  ELSE LET o == heap[val.id]
           seen1 == seen \cup {val.id}
       IN IF o.t = "arr" THEN sorterMap(o.a, heap, seen1, <<>>, 1)
          ELSE sorterKeys(SortedKeys(Keys(o.e)), o.e, heap, seen1, <<>>, 1)

sorter(val, heap, seen) ==
  \* !val || typeof val !== "object"
  IF val.t # "ref" THEN [v |-> val, seen |-> seen, calls |-> 1]
  ELSE IF val.id \in seen THEN [v |-> Undef, seen |-> seen, calls |-> 1]
  ELSE LET o == heap[val.id]
           seen1 == seen \cup {val.id}
       IN IF o.t = "arr" THEN sorterMap(o.a, heap, seen1, <<>>, 1)
          ELSE sorterKeys(SortedKeys(Keys(o.e)), o.e, heap, seen1, <<>>, 1)

\* the quoted form of a string in JSON
RECURSIVE JsonEscape(_)
JsonEscape(s) ==
  IF Len(s) = 0 THEN <<>>
  ELSE (CASE s[1] = QUOTE -> <<BACKSLASH, QUOTE>>
          [] s[1] = BACKSLASH -> <<BACKSLASH, BACKSLASH>>
          [] s[1] = LF -> <<BACKSLASH, "n">>
          [] s[1] = CR -> <<BACKSLASH, "r">>
          [] s[1] = "\t" -> <<BACKSLASH, "t">>
          [] OTHER -> <<s[1]>>) \o JsonEscape(Tail(s))
JsonQuote(s) == <<QUOTE>> \o JsonEscape(s) \o <<QUOTE>>

(* JSON.stringify of a defined value the sorter returned (a tree: Obj and  *)
(* Arr hold values, not references).                                       *)
RECURSIVE JSONstringify(_)
JSONstringify(v) ==
  CASE v.t = "num" -> ToStringJS(v)
    [] v.t \in {"null", "nan", "inf", "ninf"} -> <<"n", "u", "l", "l">>
    [] v.t = "bool" -> IF v.b THEN <<"t", "r", "u", "e">> ELSE <<"f", "a", "l", "s", "e">>
    [] v.t = "str" -> JsonQuote(v.s)
    [] v.t = "arr" ->
         \* an undefined element is written null
         <<"[">> \o Join([i \in 1..Len(v.a) |->
                            IF v.a[i] = Undef THEN <<"n", "u", "l", "l">>
                            ELSE JSONstringify(v.a[i])], <<COMMA>>) \o <<"]">>
    [] v.t = "obj" ->
         \* an undefined property is left out
         LET kept == SelectSeq(v.e, LAMBDA kv : kv[2] # Undef)
         IN <<"{">> \o Join([i \in 1..Len(kept) |->
                               JsonQuote(kept[i][1]) \o <<":">>
                                 \o JSONstringify(kept[i][2])], <<COMMA>>) \o <<"}">>

\* the value is a primitive or a reference into the heap; the result is a
\* string, or undefined: JSON.stringify(undefined) is undefined
stableStringify(value, heap) ==
  LET sorted == sorter(value, heap, {}).v
  IN IF sorted = Undef THEN Undef ELSE Str(JSONstringify(sorted))

(* hashString. h is an unsigned 32-bit integer kept as two 16-bit halves:  *)
(* ((h * 33) ^ code) >>> 0 is h * 33 modulo 2^32 with the code xor-ed into *)
(* the low bits.                                                           *)
HalfWord == 65536

RECURSIVE BitXor(_, _)
BitXor(a, b) ==
  IF a = 0 THEN b
  ELSE IF b = 0 THEN a
  ELSE (((a % 2) + (b % 2)) % 2) + 2 * BitXor(a \div 2, b \div 2)

hashStep(h, code) ==
  LET low == h.lo * 33
  IN [hi |-> ((h.hi * 33) + (low \div HalfWord)) % HalfWord,
      lo |-> BitXor(low % HalfWord, code)]

RECURSIVE hashLoop(_, _, _)
hashLoop(s, i, h) ==
  IF i > Len(s) THEN h ELSE hashLoop(s, i + 1, hashStep(h, charCodeAt(s[i])))

\* Number.prototype.toString(16) of a natural number
RECURSIVE NatToHex(_)
NatToHex(n) ==
  LET d == <<"0", "1", "2", "3", "4", "5", "6", "7", "8", "9",
             "a", "b", "c", "d", "e", "f">>
  IN IF n < 16 THEN <<d[n + 1]>> ELSE NatToHex(n \div 16) \o <<d[(n % 16) + 1]>>

\* h.toString(16)
WordToHex(h) ==
  IF h.hi = 0 THEN NatToHex(h.lo) ELSE NatToHex(h.hi) \o ZeroPad(NatToHex(h.lo), 4)

\* 5381 >>> 0
HashSeed == [hi |-> 0, lo |-> 5381]

hashString(s) == WordToHex(hashLoop(s, 1, HashSeed))

\* hashString(stableStringify(obj)); s.length of undefined throws
hashObject(obj, heap) ==
  LET s == stableStringify(obj, heap)
  IN IF s = Undef THEN [t |-> "throw"] ELSE Str(hashString(s.s))

(* StableKeyer, called as pure functions *)

MaxObjects == 2

HashKeys == {<<"a">>, <<"b">>}
\* what object i of a heap of n objects may hold: a number, itself, the next
\* object (the first one after the last)
HeapValues(i, n) == {Num(1), Ref(i), Ref((i % n) + 1)}
HeapObjects(i, n) ==
  {Obj(e) : e \in UNION {{[j \in 1..Len(ks) |-> <<ks[j], vs[j]>>] :
                            vs \in [1..Len(ks) -> HeapValues(i, n)]} :
                          ks \in InjectiveSeqs(HashKeys, Cardinality(HashKeys))}}
    \cup {Arr(a) : a \in SeqsUpTo(HeapValues(i, n), Cardinality(HashKeys))}
RECURSIVE HeapsFrom(_, _)
HeapsFrom(i, n) ==
  IF i > n THEN {<<>>}
  ELSE {<<o>> \o rest : o \in HeapObjects(i, n), rest \in HeapsFrom(i + 1, n)}
Heaps(n) == HeapsFrom(1, n)

\* objects holding the other primitives: strings, booleans, null, NaN, undefined
SampleHeaps ==
  {<<Obj(<<<<<<"b">>, Str(<<"x", QUOTE>>)>>, <<<<"a">>, Undef>>>>)>>,
   <<Obj(<<<<<<"b">>, Bool(TRUE)>>, <<<<"a">>, Null>>>>)>>,
   <<Arr(<<Undef, NaN, Bool(FALSE), Dec(-25, 1)>>)>>,
   <<Arr(<<Str(<<"x">>), Num(1)>>)>>}

HashInit ==
  /\ \/ \E n \in 1..MaxObjects : \E h \in Heaps(n) : fnArgs = [value |-> Ref(1), heap |-> h]
     \/ \E h \in SampleHeaps : fnArgs = [value |-> Ref(1), heap |-> h]
     \/ \E v \in {Num(1), Str(<<"x">>), Null, Undef} : fnArgs = [value |-> v, heap |-> <<>>]
  /\ fnCall = NoCall

CallStableStringify ==
  /\ fnCall = NoCall
  /\ fnCall' = [op |-> "stableStringify",
                out |-> stableStringify(fnArgs.value, fnArgs.heap),
                calls |-> sorter(fnArgs.value, fnArgs.heap, {}).calls]
  /\ UNCHANGED <<fnArgs, exogVars, csvVars, pageVars, normVars, chatVars,
                 gridVars, metricsVars>>

CallHashObject ==
  /\ fnCall = NoCall
  /\ fnCall' = [op |-> "hashObject", out |-> hashObject(fnArgs.value, fnArgs.heap)]
  /\ UNCHANGED <<fnArgs, exogVars, csvVars, pageVars, normVars, chatVars,
                 gridVars, metricsVars>>

HashNext == CallStableStringify \/ CallHashObject

InitHash == HashInit /\ ExogIdle /\ CsvIdle /\ PageIdle /\ NormIdle /\ ChatIdle /\ GridIdle /\ MetricsIdle
SpecHash == InitHash /\ [][HashNext]_vars

----------------------------------------------------------------------------
(* Claims about the StableKeyer *)

\* the heaps that differ from `heap` only in the order of object keys
ObjectVariants(o) == IF o.t = "arr" THEN {o} ELSE {Obj(e) : e \in KeyOrders(o.e)}
RECURSIVE KeyOrderVariants(_)
KeyOrderVariants(heap) ==
  IF Len(heap) = 0 THEN {<<>>}
  ELSE {<<o>> \o rest : o \in ObjectVariants(Head(heap)),
                         rest \in KeyOrderVariants(Tail(heap))}

IsPrimitive(v) == v.t # "ref"

(* C16: equal values up to key ordering produce equal hashes: for any two  *)
(* JSON-like values that differ only in the order of object keys, at any   *)
(* nesting depth, stableStringify returns the same string and hashObject   *)
(* the same hexadecimal hash, while the order of array elements is         *)
(* preserved in the string.                                                *)
C16_KeyOrderInsensitive ==
  /\ fnCall.op = "stableStringify" =>
       /\ \A h \in KeyOrderVariants(fnArgs.heap) :
            stableStringify(fnArgs.value, h) = fnCall.out
       /\ \A i \in 1..Len(fnArgs.heap) :
            LET o == fnArgs.heap[i]
            IN o.t = "arr" /\ fnArgs.value = Ref(i)
                 /\ (\A j \in 1..Len(o.a) : IsPrimitive(o.a[j])) =>
                 fnCall.out =
                   Str(<<"[">> \o Join([j \in 1..Len(o.a) |->
                                          IF o.a[j] = Undef THEN <<"n", "u", "l", "l">>
                                          ELSE JSONstringify(o.a[j])], <<COMMA>>)
                         \o <<"]">>)
  /\ fnCall.op = "hashObject" =>
       \A h \in KeyOrderVariants(fnArgs.heap) :
         hashObject(fnArgs.value, h) = fnCall.out

\* keys inserted b, a at two nesting depths come out a, b
C16_Witness ==
  /\ fnCall.op = "stableStringify"
  /\ fnArgs.value = Ref(1)
  /\ fnArgs.heap = <<Obj(<<<<<<"b">>, Num(1)>>, <<<<"a">>, Ref(2)>>>>),
                     Obj(<<<<<<"b">>, Num(1)>>, <<<<"a">>, Num(1)>>>>)>>
  /\ fnCall.out = Str(<<"{", QUOTE, "a", QUOTE, ":",
                          "{", QUOTE, "a", QUOTE, ":", "1", COMMA,
                               QUOTE, "b", QUOTE, ":", "1", "}", COMMA,
                         QUOTE, "b", QUOTE, ":", "1", "}">>)

\* the number of values held by the objects of the heap
RECURSIVE CountValues(_)
CountValues(heap) ==
  IF Len(heap) = 0 THEN 0
  ELSE (IF Head(heap).t = "arr" THEN Len(Head(heap).a) ELSE Len(Head(heap).e))
       + CountValues(Tail(heap))

\* the heap with every reference to object i replaced by omitted content
Omit(v, i) == IF v = Ref(i) THEN Undef ELSE v
WithHoles(heap, i) ==
  [k \in 1..Len(heap) |->
     IF heap[k].t = "arr" THEN Arr([j \in 1..Len(heap[k].a) |-> Omit(heap[k].a[j], i)])
     ELSE Obj([j \in 1..Len(heap[k].e) |-> <<heap[k].e[j][1], Omit(heap[k].e[j][2], i)>>])]

HasCycle(heap) ==
  \E k \in 1..Len(heap) :
    IF heap[k].t = "arr" THEN \E j \in 1..Len(heap[k].a) : heap[k].a[j] = Ref(1)
    ELSE \E j \in 1..Len(heap[k].e) : heap[k].e[j][2] = Ref(1)

(* C17: stableStringify terminates and returns without error on every      *)
(* object graph that contains reference cycles: it returns a string after   *)
(* at most one sorter call per value held in the graph (each object is      *)
(* traversed once), and an object reached again through a cycle is treated  *)
(* as omitted content (a hole): the string is the one of the graph in which *)
(* the references back to the root are left out.                            *)
C17_CyclesBecomeHoles ==
  fnCall.op = "stableStringify" /\ fnArgs.value = Ref(1) =>
    /\ fnCall.out.t = "str"
    /\ fnCall.calls <= 1 + CountValues(fnArgs.heap)
    /\ fnCall.out = stableStringify(Ref(1), WithHoles(fnArgs.heap, 1))

\* an object and an array that hold each other
C17_Witness ==
  /\ fnCall.op = "stableStringify"
  /\ fnArgs.value = Ref(1)
  /\ fnArgs.heap = <<Obj(<<<<<<"a">>, Ref(2)>>, <<<<"b">>, Ref(1)>>>>),
                     Arr(<<Ref(1), Num(1)>>)>>
  /\ HasCycle(fnArgs.heap)
  /\ fnCall.out = Str(<<"{", QUOTE, "a", QUOTE, ":", "[", "n", "u", "l", "l",
                         COMMA, "1", "]", "}">>)

\* the values an object or array of the heap holds, in order
ValuesOf(o) == IF o.t = "arr" THEN o.a ELSE [j \in 1..Len(o.e) |-> o.e[j][2]]
\* the same object or array holding other values
WithValues(o, vs) ==
  IF o.t = "arr" THEN Arr(vs) ELSE Obj([j \in 1..Len(o.e) |-> <<o.e[j][1], vs[j]>>])

\* the objects referenced by the object k
RefsOf(heap, k) ==
  {ValuesOf(heap[k])[j].id : j \in {i \in 1..Len(ValuesOf(heap[k])) : ValuesOf(heap[k])[i].t = "ref"}}
\* the objects reached from the set S in at most n steps, S included
RECURSIVE ReachedIn(_, _, _)
ReachedIn(heap, S, n) ==
  IF n = 0 THEN S
  ELSE ReachedIn(heap, S \cup UNION {RefsOf(heap, k) : k \in S}, n - 1)
ReachedFrom(heap, k) == ReachedIn(heap, RefsOf(heap, k), Len(heap))
\* no object reaches itself
Acyclic(heap) == \A k \in 1..Len(heap) : k \notin ReachedFrom(heap, k)

\* the positions, in objects reached from the root, that refer to object j
PositionsOf(heap, j) ==
  {<<k, i>> \in (ReachedIn(heap, {1}, Len(heap)) \X (1..CountValues(heap))) :
     i <= Len(ValuesOf(heap[k])) /\ ValuesOf(heap[k])[i] = Ref(j)}
\* some object is referenced from two positions
SharesAnObject(heap) ==
  \E j \in 1..Len(heap) : Cardinality(PositionsOf(heap, j)) >= 2

(* The value with a separate copy of the referenced object at every        *)
(* position: Unfold(val, heap, out) adds the copies to the heap `out` and  *)
(* returns the value that refers to them. For heaps without a cycle.       *)
RECURSIVE Unfold(_, _, _)
RECURSIVE UnfoldAll(_, _, _, _)
Unfold(val, heap, out) ==
  IF val.t # "ref" THEN [v |-> val, out |-> out]
  ELSE LET id == Len(out) + 1
           o == heap[val.id]
           kids == UnfoldAll(ValuesOf(o), heap, Append(out, o), <<>>)
       IN [v |-> Ref(id), out |-> [kids.out EXCEPT ![id] = WithValues(o, kids.vs)]]
UnfoldAll(vals, heap, out, acc) ==
  IF Len(vals) = 0 THEN [vs |-> acc, out |-> out]
  ELSE LET first == Unfold(Head(vals), heap, out)
       IN UnfoldAll(Tail(vals), heap, first.out, Append(acc, first.v))

\* the heap of separate copies under the root
Copies(heap) == Unfold(Ref(1), heap, <<>>).out

(* C30: stableStringify and hashObject depend only on the structure of the *)
(* value, not on reference sharing: a value in which the same object or    *)
(* array is referenced from two positions without forming a cycle yields   *)
(* the same string and hash as a value holding two structurally equal      *)
(* separate copies at those positions.                                     *)
C30_SharingInsensitive ==
  (/\ fnCall.op \in {"stableStringify", "hashObject"}
   /\ fnArgs.value = Ref(1)
   /\ Acyclic(fnArgs.heap)
   /\ SharesAnObject(fnArgs.heap)) =>
    fnCall.out = IF fnCall.op = "stableStringify"
                 THEN stableStringify(Ref(1), Copies(fnArgs.heap))
                 ELSE hashObject(Ref(1), Copies(fnArgs.heap))

----------------------------------------------------------------------------
(* The chat page : ChatPage.submit over the useChatForecast mutation *)

MaxChatCalls == 3

\* "forecast 30 hari", one of the suggestions
Suggestion ==
  <<"f", "o", "r", "e", "c", "a", "s", "t", SPACE, "3", "0", SPACE, "h", "a", "r", "i">>
\* what the user may type: the suggestion with a trailing space, another
\* message, blanks, nothing
TypedPrompts == {Suggestion \o <<SPACE>>, <<"x">>, <<SPACE>>, <<>>}

\* hashChatMessage(input) = hashObject(input), input being { message }
hashChatMessage(input) ==
  hashObject(Ref(1), <<Obj(<<<<<<"m", "e", "s", "s", "a", "g", "e">>, Str(input.message)>>>>)>>)

ChatInit ==
  /\ chatPrompt = <<>>
  /\ chatInFlight = {}
  /\ chatIssued = 0
  /\ chatIsPending = FALSE
  /\ chatResult = 0
  /\ chatError = 0
  /\ chatDone = {}

\* submit(msg): the message is trimmed, an empty one returns at once;
\* otherwise setError(null) and chatForecast({ message }) posts the body
submit(msg) ==
  LET message == Trim(msg)
  IN /\ Len(message) > 0
     /\ chatIssued < MaxChatCalls
     /\ chatError' = 0
     /\ chatIssued' = chatIssued + 1
     /\ chatInFlight' =
          chatInFlight \cup {[id |-> chatIssued + 1, body |-> [message |-> message]]}
     /\ chatIsPending' = TRUE
     /\ UNCHANGED <<chatResult, chatDone, exogVars, csvVars, pageVars, normVars, fnVars,
                 gridVars, metricsVars>>

\* Input onChange: setPrompt(e.target.value)
ChatTypePrompt ==
  /\ \E text \in TypedPrompts : chatPrompt' = text
  /\ UNCHANGED <<chatInFlight, chatIssued, chatIsPending, chatResult, chatError,
                 chatDone,
                 exogVars, csvVars, pageVars, normVars, fnVars,
                 gridVars, metricsVars>>

\* Input onKeyDown, Enter without Shift: submit()
ChatPressEnter ==
  /\ submit(chatPrompt)
  /\ UNCHANGED chatPrompt

\* the Send button, disabled while loading={isPending}: submit()
ChatClickSend ==
  /\ ~chatIsPending
  /\ submit(chatPrompt)
  /\ UNCHANGED chatPrompt

\* a suggestion button: setPrompt(s); submit(s)
ChatClickSuggestion ==
  /\ chatPrompt' = Suggestion
  /\ submit(Suggestion)

\* a call is answered: setResult(r); isPending follows the latest call only
ChatResolved ==
  /\ \E call \in chatInFlight :
       /\ chatInFlight' = chatInFlight \ {call}
       /\ chatIsPending' = (IF call.id = chatIssued THEN FALSE ELSE chatIsPending)
       /\ chatResult' = call.id
       /\ chatDone' = chatDone \cup {[id |-> call.id, ok |-> TRUE]}
  /\ UNCHANGED <<chatPrompt, chatIssued, chatError,
                 exogVars, csvVars, pageVars, normVars, fnVars,
                 gridVars, metricsVars>>

\* a call fails: setError(getErrorMessage(e))
ChatRejected ==
  /\ \E call \in chatInFlight :
       /\ chatInFlight' = chatInFlight \ {call}
       /\ chatIsPending' = (IF call.id = chatIssued THEN FALSE ELSE chatIsPending)
       /\ chatError' = call.id
       /\ chatDone' = chatDone \cup {[id |-> call.id, ok |-> FALSE]}
  /\ UNCHANGED <<chatPrompt, chatIssued, chatResult,
                 exogVars, csvVars, pageVars, normVars, fnVars,
                 gridVars, metricsVars>>

ChatNext ==
  \/ ChatTypePrompt
  \/ ChatPressEnter
  \/ ChatClickSend
  \/ ChatClickSuggestion
  \/ ChatResolved
  \/ ChatRejected

InitChat == ChatInit /\ ExogIdle /\ CsvIdle /\ PageIdle /\ NormIdle /\ FnIdle /\ GridIdle /\ MetricsIdle
SpecChat == InitChat /\ [][ChatNext]_vars

(* C18: at most one forecast request per body key is in flight at any      *)
(* time: when a chat-forecast (or predict) request is submitted while a    *)
(* request with an identical body (equal hashChatMessage / hashPredictBody)*)
(* is still pending, no second network call is issued for it, for every    *)
(* interleaving of submissions and responses.                              *)
C18_OneInFlightPerBody ==
  \A c1, c2 \in chatInFlight :
    c1.id # c2.id => hashChatMessage(c1.body) # hashChatMessage(c2.body)

\* every request has settled, and there was one
ChatSettled == chatInFlight = {} /\ chatIssued > 0
\* the call was answered with a forecast
ChatSucceeded(k) == [id |-> k, ok |-> TRUE] \in chatDone

(* C28: on the chat page, once every in-flight request has settled, the    *)
(* displayed forecast and the displayed error are those of the most        *)
(* recently submitted message, for any interleaving of submissions and     *)
(* responses: a response to an older message never overwrites the outcome  *)
(* of a newer one, and an error is never shown together with the result of *)
(* a later successful message.                                             *)
C28_LatestOutcomeShown ==
  ChatSettled =>
    /\ ChatSucceeded(chatIssued) => (chatResult = chatIssued /\ chatError = 0)
    /\ ~ChatSucceeded(chatIssued) => chatError = chatIssued
    \* the forecast shown is the latest one received for any message
    /\ \A k \in 1..chatIssued : ChatSucceeded(k) => chatResult >= k
    /\ (chatError # 0 /\ chatResult # 0) => chatResult < chatError

----------------------------------------------------------------------------
(* HistogramBinner : toHistogram of ErrorHistogram                         *)
(*                                                                         *)
(* The arithmetic is exact: a number is a fraction n / d in lowest terms,  *)
(* d > 0. Rounding of IEEE doubles is not modelled.                        *)

RECURSIVE GCD(_, _)
GCD(a, b) == IF b = 0 THEN a ELSE GCD(b, a % b)
AbsInt(n) == IF n < 0 THEN 0 - n ELSE n

Rat(n, d) ==
  LET g == GCD(AbsInt(n), AbsInt(d))
      sgn == IF d < 0 THEN 0 - 1 ELSE 1
  IN [n |-> (sgn * n) \div g, d |-> (sgn * d) \div g]
\* the fraction of a finite number of the model
ToRat(v) == Rat(v.n, Pow10(v.d))
RatAdd(x, y) == Rat((x.n * y.d) + (y.n * x.d), x.d * y.d)
RatSub(x, y) == Rat((x.n * y.d) - (y.n * x.d), x.d * y.d)
RatMul(x, y) == Rat(x.n * y.n, x.d * y.d)
RatDiv(x, y) == Rat(x.n * y.d, x.d * y.n)
RatLess(x, y) == (x.n * y.d) < (y.n * x.d)
RatMax(x, y) == IF RatLess(x, y) THEN y ELSE x
RatAbs(x) == [n |-> AbsInt(x.n), d |-> x.d]
\* Math.floor
RatFloor(x) == x.n \div x.d

\* Math.min(...clean) and Math.max(...clean)
RECURSIVE MinOf(_)
MinOf(xs) ==
  IF Len(xs) = 1 THEN xs[1]
  ELSE LET m == MinOf(Tail(xs)) IN IF RatLess(xs[1], m) THEN xs[1] ELSE m
RECURSIVE MaxOf(_)
MaxOf(xs) ==
  IF Len(xs) = 1 THEN xs[1]
  ELSE LET m == MaxOf(Tail(xs)) IN IF RatLess(m, xs[1]) THEN xs[1] ELSE m

\* a variant of the clamp without its lower bound
histClamp_noLowerBound(n, min, max) ==
  IF n.t = "nan" THEN NaN
  ELSE IF n.t = "inf" THEN Num(max)
  ELSE IF n.t = "ninf" THEN Num(min)
  ELSE LET r == RatFloor(RatAdd(ToRat(n), Rat(1, 2)))
       IN Num(IF r > max THEN max ELSE r)

(* clamp(n, min, max) of ErrorHistogram:                                   *)
(* Math.max(min, Math.min(max, Math.round(n))). The result is an integer   *)
(* number, or NaN: Math.round, Math.min and Math.max all hand a NaN through.       *)
histClamp(n, min, max) ==
  IF n.t = "nan" THEN NaN
  ELSE IF n.t = "inf" THEN Num(max)
  ELSE IF n.t = "ninf" THEN Num(min)
  ELSE LET r == RatFloor(RatAdd(ToRat(n), Rat(1, 2)))
           m == IF r > max THEN max ELSE r
       IN Num(IF m < min THEN min ELSE m)

(* toHistogram(values, bins, mode). The result is Arr(rows), or a thrown   *)
(* TypeError: with k NaN no row is built and rows[idx].count++ reads       *)
(* .count of undefined for the first value counted.                        *)
toHistogram(values, bins, mode) ==
  LET finite == SelectSeq(values, IsFinite)
      clean == [i \in 1..Len(finite) |-> ToRat(finite[i])]
  IN IF Len(clean) = 0 THEN Arr(<<>>)
     ELSE
       LET min0 == MinOf(clean)
           max0 == MaxOf(clean)
           a == RatMax(RatAbs(min0), RatAbs(max0))
           min == IF mode = "residual" THEN Rat(0 - a.n, a.d) ELSE RatMax(Rat(0, 1), min0)
           max == IF mode = "residual" THEN a ELSE RatMax(min, max0)
           kClamped == histClamp(bins, 5, 60)
       IN IF kClamped = NaN THEN [t |-> "throw"]
          ELSE
            LET k == kClamped.n
                span == RatSub(max, min)
                \* (max - min) / k || 1
                width == IF span.n = 0 THEN Rat(1, 1) ELSE RatDiv(span, Rat(k, 1))
                edges == [i \in 1..(k + 1) |-> RatAdd(min, RatMul(Rat(i - 1, 1), width))]
                counted(v) == ~(RatLess(v, min) \/ RatLess(max, v))
                idxOf(v) ==
                  LET idx == RatFloor(RatDiv(RatSub(v, min), width))
                  IN IF idx < 0 THEN 0 ELSE IF idx >= k THEN k - 1 ELSE idx
            IN Arr([i \in 1..k |->
                     [x0 |-> edges[i], x1 |-> edges[i + 1],
                      center |-> RatDiv(RatAdd(edges[i], edges[i + 1]), Rat(2, 1)),
                      count |-> Cardinality({j \in 1..Len(clean) :
                                  counted(clean[j]) /\ idxOf(clean[j]) = i - 1})]])

(* HistogramBinner, called as a pure function *)

MaxSampleLen == 3

HistSamples == {Num(-5), Num(-1), Num(0), Num(5), Dec(25, 1), NaN}
\* the sample of Example 3
Example3Values == <<Num(-5), Num(-1), Num(0), Num(1), Num(5)>>
\* requested bin counts: below, inside and above 5..60, fractional, not a number
HistBins == {Num(-3), Num(2), Num(5), Dec(55, 1), Num(7), Num(60), Num(61), PosInf, NaN}
HistModes == {"residual", "absolute"}

HistInit ==
  /\ \E values \in SeqsUpTo(HistSamples, MaxSampleLen) \cup {Example3Values},
        bins \in HistBins, mode \in HistModes :
       fnArgs = [values |-> values, bins |-> bins, mode |-> mode]
  /\ fnCall = NoCall

CallToHistogram ==
  /\ fnCall = NoCall
  /\ fnCall' = [op |-> "toHistogram",
                out |-> toHistogram(fnArgs.values, fnArgs.bins, fnArgs.mode)]
  /\ UNCHANGED <<fnArgs, exogVars, csvVars, pageVars, normVars, chatVars,
                 gridVars, metricsVars>>

HistNext == CallToHistogram

InitHist == HistInit /\ ExogIdle /\ CsvIdle /\ PageIdle /\ NormIdle /\ ChatIdle /\ GridIdle /\ MetricsIdle
SpecHist == InitHist /\ [][HistNext]_vars

----------------------------------------------------------------------------
(* Claims about the HistogramBinner *)

RECURSIVE SumCounts(_)
SumCounts(rows) == IF Len(rows) = 0 THEN 0 ELSE Head(rows).count + SumCounts(Tail(rows))

(* C19: for every sample, requested bin count and mode, toHistogram        *)
(* returns bins whose edges are strictly increasing and contiguous (the    *)
(* upper edge of bin i equals the lower edge of bin i+1), and the sum of   *)
(* the bin counts is at most the number of finite values of the sample.    *)
C19_BinsContiguous ==
  fnCall.op = "toHistogram" =>
    /\ fnCall.out.t = "arr"
    /\ LET rows == fnCall.out.a
       IN /\ \A i \in 1..Len(rows) : RatLess(rows[i].x0, rows[i].x1)
          /\ \A i \in 1..(Len(rows) - 1) : rows[i].x1 = rows[i + 1].x0
          /\ SumCounts(rows) <= Len(SelectSeq(fnArgs.values, IsFinite))

IsExample3 ==
  /\ fnCall.op = "toHistogram"
  /\ fnArgs = [values |-> Example3Values, bins |-> Num(2), mode |-> "residual"]

\* the edges and the counts of the rows returned
EdgesOf(rows) == [i \in 1..Len(rows) |-> <<rows[i].x0, rows[i].x1>>]
CountsOf(rows) == [i \in 1..Len(rows) |-> rows[i].count]

(* C20: in residual mode, bin([-5,-1,0,1,5], 2) returns two bins spanning  *)
(* [-5,0] and [0,5] with counts [2,3].                                     *)
C20_TwoBins ==
  IsExample3 =>
    /\ EdgesOf(fnCall.out.a) = <<<<Rat(-5, 1), Rat(0, 1)>>, <<Rat(0, 1), Rat(5, 1)>>>>
    /\ CountsOf(fnCall.out.a) = <<2, 3>>

(* C20, as the code has it: the requested bin count is clamped to 5..60    *)
(* before binning, so in residual mode bin([-5,-1,0,1,5], 2) returns five  *)
(* bins spanning [-5,-3], [-3,-1], [-1,1], [1,3] and [3,5] with counts     *)
(* [1,0,2,1,1].                                                            *)
C20_FiveBins ==
  IsExample3 =>
    /\ EdgesOf(fnCall.out.a) =
         <<<<Rat(-5, 1), Rat(-3, 1)>>, <<Rat(-3, 1), Rat(-1, 1)>>,
           <<Rat(-1, 1), Rat(1, 1)>>, <<Rat(1, 1), Rat(3, 1)>>,
           <<Rat(3, 1), Rat(5, 1)>>>>
    /\ CountsOf(fnCall.out.a) = <<1, 0, 2, 1, 1>>

C20_Witness ==
  /\ IsExample3
  /\ Len(fnCall.out.a) = 5
  /\ fnCall.out.a[3].count = 2

\* the finite values of the sample, as fractions
FiniteOf(values) ==
  LET finite == SelectSeq(values, IsFinite)
  IN [i \in 1..Len(finite) |-> ToRat(finite[i])]

\* max(5, min(60, round(b))) of a requested bin count that is a number
RoundedBins(b) ==
  IF b.t = "inf" THEN 60
  ELSE IF b.t = "ninf" THEN 5
  ELSE LET q == ToRat(b)
           \* the integer r with r - 1/2 <= b < r + 1/2
           r == CHOOSE z \in -100..100 :
                  /\ ((2 * z) - 1) * q.d <= 2 * q.n
                  /\ 2 * q.n < ((2 * z) + 1) * q.d
       IN IF r < 5 THEN 5 ELSE IF r > 60 THEN 60 ELSE r

(* C21: for every sample with at least one finite value and every          *)
(* requested bin count, toHistogram returns exactly                        *)
(* max(5, min(60, round(binCount))) bins.                                  *)
C21_BinCountClamped ==
  (fnCall.op = "toHistogram" /\ Len(FiniteOf(fnArgs.values)) > 0) =>
    /\ fnCall.out.t = "arr"
    /\ Len(fnCall.out.a) = RoundedBins(fnArgs.bins)

(* C22: in residual mode the domain is [-a, a], a the largest absolute     *)
(* value of the finite sample values, and for every sample and every bin   *)
(* count the binner accepts, 0 is the edge of some bin.                    *)
C22_ZeroOnBoundary ==
  (/\ fnCall.op = "toHistogram"
   /\ fnArgs.mode = "residual"
   /\ fnCall.out.t = "arr"
   /\ Len(FiniteOf(fnArgs.values)) > 0) =>
    LET rows == fnCall.out.a
        clean == FiniteOf(fnArgs.values)
        a == RatMax(RatAbs(MinOf(clean)), RatAbs(MaxOf(clean)))
    IN /\ rows[1].x0 = Rat(0 - a.n, a.d)
       /\ a.n # 0 => rows[Len(rows)].x1 = a
       /\ \E i \in 1..Len(rows) : rows[i].x0 = Rat(0, 1) \/ rows[i].x1 = Rat(0, 1)

----------------------------------------------------------------------------
(* ApiErrorMapper : the response interceptor of the API client, and        *)
(* getErrorMessage on the way to the page                                  *)
(*                                                                         *)
(* A failed call is an AxiosError [code, message, response]; response is   *)
(* undefined or [status, statusText, data]. An Error object is             *)
(* [t |-> "error", message |-> text].                                      *)

\* the messages of the interceptor
TimeoutMessage ==
  <<"R", "e", "q", "u", "e", "s", "t", SPACE, "t", "i", "m", "e", "o",
    "u", "t", ".", SPACE, "P", "l", "e", "a", "s", "e", SPACE, "t", "r",
    "y", SPACE, "a", "g", "a", "i", "n", ".">>
NetworkMessage ==
  <<"N", "e", "t", "w", "o", "r", "k", SPACE, "e", "r", "r", "o", "r",
    ".", SPACE, "C", "h", "e", "c", "k", SPACE, "y", "o", "u", "r", SPACE,
    "i", "n", "t", "e", "r", "n", "e", "t", SPACE, "c", "o", "n", "n",
    "e", "c", "t", "i", "o", "n", ".">>
RequestFailed ==
  <<"R", "e", "q", "u", "e", "s", "t", SPACE, "f", "a", "i", "l", "e",
    "d">>
\* the text the interceptor looks for in err.message
NetworkErrorText ==
  <<"N", "e", "t", "w", "o", "r", "k", SPACE, "E", "r", "r", "o", "r">>

ErrorOf(message) == [t |-> "error", message |-> message]

\* the truth value of a JavaScript value in a condition
Truthy(v) ==
  CASE v.t \in {"null", "undef", "nan"} -> FALSE
    [] v.t = "str" -> Len(v.s) > 0
    [] v.t = "num" -> v.n # 0
    [] v.t = "bool" -> v.b
    [] OTHER -> TRUE

\* String.prototype.includes
Includes(s, part) ==
  \E i \in 0..(Len(s) - Len(part)) : SubSeq(s, i + 1, i + Len(part)) = part

\* a || b || ... : the first truthy value, the last value when none is
RECURSIVE OrChain(_)
OrChain(vs) ==
  IF Len(vs) = 1 \/ Truthy(Head(vs)) THEN Head(vs) ELSE OrChain(Tail(vs))

\* v?.[k] of any value: a property of an object, undefined otherwise
Prop(v, k) == IF v.t = "obj" THEN Get(v.e, k) ELSE Undef

DETAIL == <<"d", "e", "t", "a", "i", "l">>
MSG == <<"m", "s", "g">>
TYPE == <<"t", "y", "p", "e">>

\* isApiErrorResponse(x): Boolean(x && typeof x === "object" && "detail" in x)
\* (an array is an object without a detail property)
isApiErrorResponse(x) == Truthy(x) /\ x.t = "obj" /\ HasKey(x.e, DETAIL)

\* new Error(msg).message is String(msg)
ErrorFrom(msg) == ErrorOf(ToStringJS(msg))

(* The interceptor past its network and timeout tests: HTTP errors with a  *)
(* server response, and the fallback message.                              *)
httpRejected(err) ==
  LET response == err.response
      data == IF response = Undef THEN Undef ELSE response.data
      statusText == IF response = Undef THEN Undef ELSE Str(response.statusText)
  IN IF Truthy(data) /\ isApiErrorResponse(data) /\ Truthy(Prop(data, DETAIL))
     THEN
       \* the detail of FastAPI is a string or an array
       LET d == Prop(data, DETAIL)
           detail == IF d.t = "arr" THEN At(d.a, 0) ELSE d
       IN IF detail.t = "str" THEN ErrorFrom(detail)
          ELSE ErrorFrom(OrChain(<<
                 Prop(detail, MSG),
                 IF Prop(detail, TYPE).t = "str" THEN Prop(detail, TYPE) ELSE Null,
                 statusText,
                 Str(RequestFailed)>>))
     ELSE
       \* fallback message
       LET text == OrChain(<<statusText, Str(RequestFailed)>>).s
       IN IF response # Undef /\ response.status # 0
          THEN ErrorOf(NatToString(response.status) \o <<SPACE>> \o text)
          ELSE ErrorOf(text)

\* a variant of the interceptor that gives a timeout the network message
responseRejected_timeoutAsNetwork(err) ==
  IF err.code = "ECONNABORTED" \/ Includes(err.message, NetworkErrorText)
  THEN ErrorOf(NetworkMessage)
  ELSE httpRejected(err)

(* The rejection handler of the response interceptor: the Error it rejects *)
(* the call with.                                                          *)
responseRejected(err) ==
  IF err.code = "ECONNABORTED" THEN ErrorOf(TimeoutMessage)
  ELSE IF Includes(err.message, NetworkErrorText) THEN ErrorOf(NetworkMessage)
  ELSE httpRejected(err)

\* getErrorMessage(err, fallback = "Request failed")
getErrorMessage(err) ==
  IF ~Truthy(err) THEN RequestFailed
  ELSE IF err.t = "str" THEN err.s
  ELSE IF err.t = "error"
       THEN (IF Len(err.message) > 0 THEN err.message ELSE RequestFailed)
  ELSE JSONstringify(err)

(* ApiErrorMapper, followed from the failed call to the page *)

\* err.message of axios for a timeout (REQUEST_TIMEOUT_MS), a lost network, an HTTP error
TimeoutExceeded ==
  <<"t", "i", "m", "e", "o", "u", "t", SPACE, "o", "f", SPACE, "3", "0",
    "0", "0", "0", "m", "s", SPACE, "e", "x", "c", "e", "e", "d", "e",
    "d">>
StatusCodeText ==
  <<"R", "e", "q", "u", "e", "s", "t", SPACE, "f", "a", "i", "l", "e",
    "d", SPACE, "w", "i", "t", "h", SPACE, "s", "t", "a", "t", "u", "s",
    SPACE, "c", "o", "d", "e", SPACE>>
\* statusText of the response; empty over HTTP/2
UnprocessableEntity ==
  <<"U", "n", "p", "r", "o", "c", "e", "s", "s", "a", "b", "l", "e",
    SPACE, "E", "n", "t", "i", "t", "y">>
\* texts of the server
FieldRequired ==
  <<"f", "i", "e", "l", "d", SPACE, "r", "e", "q", "u", "i", "r", "e",
    "d">>
Missing ==
  <<"m", "i", "s", "s", "i", "n", "g">>
InvalidHorizon ==
  <<"h", "o", "r", "i", "z", "o", "n", SPACE, "m", "u", "s", "t", SPACE,
    "b", "e", SPACE, "p", "o", "s", "i", "t", "i", "v", "e">>
HtmlBody ==
  <<"<", "h", "t", "m", "l", ">">>

Statuses == {422, 500}
StatusTexts == {<<>>, UnprocessableEntity}

\* an object with or without the property
OptEntry(key, vals) == {<<>>} \cup {<<<<key, v>>>> : v \in vals}

\* detail elements of FastAPI: { msg?, type? }
DetailObjects ==
  {Obj(m \o t) : m \in OptEntry(MSG, {Str(FieldRequired), Str(<<>>), Str(TimeoutMessage)}),
                 t \in OptEntry(TYPE, {Str(Missing), Null})}

Details ==
  {Str(InvalidHorizon), Str(TimeoutMessage), Str(<<>>), Null}
    \cup DetailObjects
    \cup {Arr(<<>>)}
    \cup {Arr(<<first>>) : first \in DetailObjects \cup {Str(InvalidHorizon)}}

\* response bodies: none, not JSON, JSON without and with a detail
Bodies ==
  {Undef, Str(HtmlBody), Obj(<<>>)} \cup {Obj(<<<<DETAIL, d>>>>) : d \in Details}

AxiosErrors ==
  {[code |-> "ECONNABORTED", message |-> TimeoutExceeded, response |-> Undef],
   [code |-> "ERR_NETWORK", message |-> NetworkErrorText, response |-> Undef]}
    \cup {[code |-> IF status < 500 THEN "ERR_BAD_REQUEST" ELSE "ERR_BAD_RESPONSE",
           message |-> StatusCodeText \o NatToString(status),
           response |-> [status |-> status, statusText |-> statusText, data |-> data]] :
            status \in Statuses, statusText \in StatusTexts, data \in Bodies}

ApiInit ==
  /\ \E err \in AxiosErrors : fnArgs = [err |-> err]
  /\ fnCall = NoCall

\* postJSON fails: the interceptor rejects the call
InterceptorRejects ==
  /\ fnCall = NoCall
  /\ fnCall' = [op |-> "interceptor", out |-> responseRejected(fnArgs.err)]
  /\ UNCHANGED <<fnArgs, exogVars, csvVars, pageVars, normVars, chatVars,
                 gridVars, metricsVars>>

\* the catch of mutationFn: throw new Error(getErrorMessage(err))
MutationFnCatches ==
  /\ fnCall.op = "interceptor"
  /\ fnCall' = [op |-> "mutationFn", out |-> ErrorOf(getErrorMessage(fnCall.out))]
  /\ UNCHANGED <<fnArgs, exogVars, csvVars, pageVars, normVars, chatVars,
                 gridVars, metricsVars>>

\* the catch of the page: setError(getErrorMessage(e))
PageCatches ==
  /\ fnCall.op = "mutationFn"
  /\ fnCall' = [op |-> "page", out |-> ErrorOf(getErrorMessage(fnCall.out))]
  /\ UNCHANGED <<fnArgs, exogVars, csvVars, pageVars, normVars, chatVars,
                 gridVars, metricsVars>>

ApiNext == InterceptorRejects \/ MutationFnCatches \/ PageCatches

InitApi == ApiInit /\ ExogIdle /\ CsvIdle /\ PageIdle /\ NormIdle /\ ChatIdle /\ GridIdle /\ MetricsIdle
SpecApi == InitApi /\ [][ApiNext]_vars

----------------------------------------------------------------------------
(* Claims about the ApiErrorMapper *)

\* the failed call has reached a caller
Failed == fnCall.op \in {"interceptor", "mutationFn", "page"}

\* the detail of the body of an HTTP error, undefined when there is none
DetailOf(err) ==
  IF err.response = Undef THEN Undef ELSE Prop(err.response.data, DETAIL)

\* the first element of an array detail, the detail itself otherwise
FirstOf(d) == IF d.t = "arr" THEN (IF Len(d.a) > 0 THEN d.a[1] ELSE Undef) ELSE d

\* the property is there and holds a text
Present(v, k) == Prop(v, k).t = "str" /\ Len(Prop(v, k).s) > 0

\* the message the spec asks for: the string, else msg, else type, else generic
DetailMessage(d) ==
  LET first == FirstOf(d)
  IN IF first.t = "str" THEN first.s
     ELSE IF Present(first, MSG) THEN Prop(first, MSG).s
     ELSE IF Present(first, TYPE) THEN Prop(first, TYPE).s
     ELSE RequestFailed

(* C24: for an HTTP error whose body carries a detail, the message given   *)
(* to the caller is the detail itself when it is a string; otherwise,      *)
(* taking the first element when detail is an array, its msg when present, *)
(* else its type, else the generic "Request failed".                       *)
C24_DetailMessage ==
  (Failed /\ Truthy(DetailOf(fnArgs.err))) =>
    fnCall.out.message = DetailMessage(DetailOf(fnArgs.err))

\* the three failure classes
IsTimeout(err) == err.code = "ECONNABORTED"
IsNetwork(err) == err.code = "ERR_NETWORK" /\ err.response = Undef
\* a validation error the server reports with a text
IsValidation(err) ==
  /\ err.response # Undef
  /\ err.response.status = 422
  /\ Truthy(DetailOf(err))
  /\ LET first == FirstOf(DetailOf(err))
     IN (first.t = "str" /\ Len(first.s) > 0) \/ Present(first, MSG)

(* C25: every failed network call reaches the caller as exactly one        *)
(* rejected Error whose message distinguishes the failure class: a timeout *)
(* yields the timeout message, an unreachable network the network message, *)
(* a server-reported validation error the server's detail; the three       *)
(* classes never share a message.                                          *)
C25_ClassesNeverShare ==
  Failed =>
    /\ fnCall.out.t = "error"
    /\ IsTimeout(fnArgs.err) => fnCall.out.message = TimeoutMessage
    /\ IsNetwork(fnArgs.err) => fnCall.out.message = NetworkMessage
    /\ IsValidation(fnArgs.err) =>
         /\ fnCall.out.message = DetailMessage(DetailOf(fnArgs.err))
         /\ fnCall.out.message \notin {TimeoutMessage, NetworkMessage}
    /\ TimeoutMessage # NetworkMessage

(* C25, as the code has it: the server's detail is handed on verbatim, so  *)
(* the message of a validation error differs from the timeout and network  *)
(* messages exactly when the server's text is not one of them; a timeout   *)
(* yields the timeout message, an unreachable network the network message, *)
(* and those two differ.                                                   *)
C25_ClassesByMessage ==
  Failed =>
    /\ fnCall.out.t = "error"
    /\ IsTimeout(fnArgs.err) => fnCall.out.message = TimeoutMessage
    /\ IsNetwork(fnArgs.err) => fnCall.out.message = NetworkMessage
    /\ IsValidation(fnArgs.err) =>
         /\ fnCall.out.message = DetailMessage(DetailOf(fnArgs.err))
         /\ DetailMessage(DetailOf(fnArgs.err)) \notin {TimeoutMessage, NetworkMessage}
              => fnCall.out.message \notin {TimeoutMessage, NetworkMessage}
    /\ TimeoutMessage # NetworkMessage

C25_Witness ==
  /\ fnCall.op = "page"
  /\ IsValidation(fnArgs.err)
  /\ fnCall.out.message = FieldRequired

----------------------------------------------------------------------------
(* ManualExogGrid under its parent, the forecast page: every handler that  *)
(* emits, and the changes of the props columns and horizon. The page's     *)
(* horizon effect and the grid's sync effect run before the next event.    *)

\* what /api/debug/exog may answer when it is fetched again
RefetchedColumns == {ServerColumns, <<ADR>>}

\* CSV files and pasted texts
GridCsvTexts ==
  {<<>>,
   ADR \o <<LF, "7">>,
   <<SPACE>> \o ADR \o <<COMMA>> \o RoomNights \o <<LF, "1", COMMA, "2", LF, "x", COMMA, "4">>}

\* headers.forEach((h, i) => (headerIdx[h.trim()] = i)); headerIdx[name]:
\* the last header that trims to the name, undefined when there is none
HeaderIdx(headers, name) ==
  LET hits == {i \in 1..Len(headers) : Trim(headers[i]) = name}
  IN IF hits = {} THEN Undef ELSE Num((CHOOSE i \in hits : \A j \in hits : j <= i) - 1)

\* the loop over columns of onImportCSV and doPaste
RECURSIVE alignCsvLoop(_, _, _, _)
alignCsvLoop(doc, columns, horizon, next) ==
  IF Len(columns) = 0 THEN next
  ELSE LET name == Head(columns)
           idx == HeaderIdx(doc.headers, name)
           cell(r) ==
             LET srcRow == IF r < Len(doc.rows) THEN doc.rows[r + 1] ELSE <<>>
             IN IF idx = Undef THEN Str(<<>>)
                ELSE IF idx.n < Len(srcRow) THEN Str(srcRow[idx.n + 1]) ELSE Undef
           arr == [i \in 1..horizon |-> toNumberOrZero(cell(i - 1))]
       IN alignCsvLoop(doc, Tail(columns), horizon, Put(next, name, arr))

alignCsv(doc, columns, horizon) == alignCsvLoop(doc, columns, horizon, <<>>)

\* useDebugExog is fetched again and answers with other columns
ExogInfoRefetched ==
  /\ exogColumns # <<>>
  /\ \E columns \in RefetchedColumns \ {exogColumns} :
       /\ exogColumns' = columns
       /\ manualExog' = horizonEffect(columns, pageHorizon, manualExog)
       /\ grid' = initGrid(columns, pageHorizon, manualExog')
  /\ UNCHANGED <<pageHorizon, formValues, isPending, posted, result, error, edits,
                 exogVars, csvVars, normVars, fnVars, chatVars, gridVars, metricsVars>>

\* the page's setHorizon: the horizon effect resizes manualExog, the grid syncs
PageSetHorizon ==
  /\ \E h \in (DEFAULTS.horizon - HorizonSpan)..(DEFAULTS.horizon + HorizonSpan) :
       /\ h # pageHorizon
       /\ pageHorizon' = h
       /\ manualExog' = horizonEffect(exogColumns, h, manualExog)
       /\ grid' = initGrid(exogColumns, h, manualExog')
  /\ UNCHANGED <<exogColumns, formValues, isPending, posted, result, error, edits,
                 exogVars, csvVars, normVars, fnVars, chatVars, gridVars, metricsVars>>

\* the select of the fill row: setFillCol(e.target.value), an option per column
GridPickFillCol ==
  /\ \E i \in 1..Len(exogColumns) :
       /\ exogColumns[i] # fillCol
       /\ fillCol' = exogColumns[i]
  /\ UNCHANGED <<importing, emitted, pageVars,
                 exogVars, csvVars, normVars, fnVars, chatVars, metricsVars>>

\* doFill: nothing without a fill column; else the column filled with the value
GridDoFill ==
  /\ edits < MaxEdits
  /\ fillCol # <<>>
  /\ \E fillVal \in CellInputs :
       LET v == toNumberOrZero(fillVal)
       IN emit(Put(grid, fillCol, [i \in 1..pageHorizon |-> v]))
  /\ edits' = edits + 1
  /\ UNCHANGED <<exogColumns, pageHorizon, formValues, isPending, posted, result,
                 error, fillCol, importing,
                 exogVars, csvVars, normVars, fnVars, chatVars, metricsVars>>

\* onImportCSV up to its await of file.text(): the closure keeps the columns
\* and the horizon of the render it was created in
GridImportStart ==
  /\ edits < MaxEdits
  /\ importing = NotImporting
  /\ \E text \in GridCsvTexts :
       importing' = [text |-> text, columns |-> exogColumns, horizon |-> pageHorizon]
  /\ UNCHANGED <<fillCol, emitted, pageVars,
                 exogVars, csvVars, normVars, fnVars, chatVars, metricsVars>>

\* onImportCSV after the await: parse, return on an empty document, else emit
GridImportDone ==
  /\ importing # NotImporting
  /\ edits < MaxEdits
  /\ LET doc == parseCSV(importing.text, COMMA)
     IN IF Len(doc.headers) = 0 \/ Len(doc.rows) = 0
        THEN UNCHANGED <<manualExog, grid, emitted, edits>>
        ELSE /\ emit(alignCsv(doc, importing.columns, importing.horizon))
             /\ edits' = edits + 1
  /\ importing' = NotImporting
  /\ UNCHANGED <<exogColumns, pageHorizon, formValues, isPending, posted, result,
                 error, fillCol,
                 exogVars, csvVars, normVars, fnVars, chatVars, metricsVars>>

\* doPaste: parseCSV(pasteText.trim()), nothing on an empty document, else emit
GridDoPaste ==
  /\ edits < MaxEdits
  /\ \E text \in GridCsvTexts :
       LET doc == parseCSV(Trim(text), COMMA)
       IN /\ Len(doc.headers) # 0 /\ Len(doc.rows) # 0
          /\ emit(alignCsv(doc, exogColumns, pageHorizon))
  /\ edits' = edits + 1
  /\ UNCHANGED <<exogColumns, pageHorizon, formValues, isPending, posted, result,
                 error, fillCol, importing,
                 exogVars, csvVars, normVars, fnVars, chatVars, metricsVars>>

GridNext ==
  \/ ExogInfoLoaded
  \/ ExogInfoRefetched
  \/ PageSetHorizon
  \/ GridSetCell
  \/ GridClearAll
  \/ GridPickFillCol
  \/ GridDoFill
  \/ GridImportStart
  \/ GridImportDone
  \/ GridDoPaste

InitGrid == PageInit /\ ExogIdle /\ CsvIdle /\ NormIdle /\ FnIdle /\ ChatIdle /\ GridIdle /\ MetricsIdle
SpecGrid == InitGrid /\ [][GridNext]_vars

(* C27: every map the manual exog grid emits through onChange has exactly  *)
(* the currently declared columns as its keys and, for each of them,       *)
(* exactly horizon finite numbers, after any sequence of cell edits,       *)
(* column fills, CSV imports, CSV pastes, clears and changes of the        *)
(* declared columns or of the horizon.                                     *)
C27_EmittedMapAligned ==
  emitted # NoEmit =>
    /\ Len(emitted.map) = Len(emitted.columns)
    /\ KeySet(emitted.map) = {emitted.columns[i] : i \in 1..Len(emitted.columns)}
    /\ \A k \in 1..Len(emitted.map) :
         /\ Len(emitted.map[k][2]) = emitted.horizon
         /\ \A i \in 1..Len(emitted.map[k][2]) : IsFinite(emitted.map[k][2][i])

----------------------------------------------------------------------------
(* The metrics page : MetricsPage.submit and reset                         *)

MaxEvaluations == 2

\* the evaluation window of the form: empty (the full test set), or two dates
EvalWindows ==
  {[evalStart |-> <<>>, evalEnd |-> <<>>],
   [evalStart |-> <<"2", "0", "2", "4", "-", "0", "1", "-", "0", "1">>,
    evalEnd |-> <<"2", "0", "2", "4", "-", "0", "1", "-", "3", "1">>]}
\* the alpha of a fresh form
DefaultAlpha == Dec(5, 2)
Alphas == {DefaultAlpha, Dec(1, 1)}

MetricsInit ==
  /\ mForm = [evalStart |-> <<>>, evalEnd |-> <<>>, alpha |-> DefaultAlpha]
  /\ mResult = 0
  /\ mError = 0
  /\ mIsPending = FALSE
  /\ mInFlight = {}
  /\ mIssued = 0
  /\ mClean = FALSE

\* the date inputs and the alpha input: setEvalStart, setEvalEnd, setAlpha
MetricsEditForm ==
  /\ \E w \in EvalWindows, a \in Alphas :
       /\ mForm' = [evalStart |-> w.evalStart, evalEnd |-> w.evalEnd, alpha |-> a]
       /\ mForm' # mForm
  /\ UNCHANGED <<mResult, mError, mIsPending, mInFlight, mIssued, mClean,
                 exogVars, csvVars, pageVars, normVars, fnVars, chatVars, gridVars>>

\* the Run Evaluation button (disabled while loading={isPending}): submit up
\* to its await. No params when both dates are empty.
MetricsSubmit ==
  /\ ~mIsPending
  /\ mIssued < MaxEvaluations
  /\ mError' = 0
  /\ mIsPending' = TRUE
  /\ mIssued' = mIssued + 1
  /\ LET params == IF Len(mForm.evalStart) > 0 \/ Len(mForm.evalEnd) > 0
                   THEN [eval_start |-> mForm.evalStart, eval_end |-> mForm.evalEnd,
                         alpha |-> mForm.alpha]
                   ELSE Undef
     IN mInFlight' = mInFlight \cup {[id |-> mIssued + 1, params |-> params]}
  /\ mClean' = FALSE
  /\ UNCHANGED <<mForm, mResult,
                 exogVars, csvVars, pageVars, normVars, fnVars, chatVars, gridVars>>

\* the request is answered: setResult(data), then finally setIsPending(false)
MetricsResolved ==
  /\ \E call \in mInFlight :
       /\ mInFlight' = mInFlight \ {call}
       /\ mResult' = call.id
  /\ mIsPending' = FALSE
  /\ UNCHANGED <<mForm, mError, mIssued, mClean,
                 exogVars, csvVars, pageVars, normVars, fnVars, chatVars, gridVars>>

\* the request fails: setError(getErrorMessage(e)), then setIsPending(false)
MetricsRejected ==
  /\ \E call \in mInFlight :
       /\ mInFlight' = mInFlight \ {call}
       /\ mError' = call.id
  /\ mIsPending' = FALSE
  /\ UNCHANGED <<mForm, mResult, mIssued, mClean,
                 exogVars, csvVars, pageVars, normVars, fnVars, chatVars, gridVars>>

\* the Reset button, never disabled: reset()
MetricsReset ==
  /\ mForm' = [evalStart |-> <<>>, evalEnd |-> <<>>, alpha |-> DefaultAlpha]
  /\ mResult' = 0
  /\ mError' = 0
  /\ mClean' = TRUE
  /\ UNCHANGED <<mIsPending, mInFlight, mIssued,
                 exogVars, csvVars, pageVars, normVars, fnVars, chatVars, gridVars>>

MetricsNext ==
  \/ MetricsEditForm
  \/ MetricsSubmit
  \/ MetricsResolved
  \/ MetricsRejected
  \/ MetricsReset

InitMetrics == MetricsInit /\ ExogIdle /\ CsvIdle /\ PageIdle /\ NormIdle /\ FnIdle /\ ChatIdle /\ GridIdle
SpecMetrics == InitMetrics /\ [][MetricsNext]_vars

(* C29: on the metrics page, after Reset is pressed the result and the     *)
(* error stay empty until the user next runs an evaluation, also when a    *)
(* request was still in flight at the moment of the reset; and the pending *)
(* flag is true exactly while a request is in flight.                      *)
C29_ResetStaysEmpty ==
  /\ mClean => (mResult = 0 /\ mError = 0)
  /\ mIsPending <=> (mInFlight # {})

====
